---- MODULE Spec2Model ----
(***************************************************************************)
(* Verification model of the irrigation backend's arbitration core         *)
(* (src/backend/ifs325grp2_backend.py): the shared Database state, the     *)
(* pump primitives turn_pump_on / turn_pump_off with the auto-off          *)
(* threading.Timer, the MQTT handler on_message, the alert cooldown        *)
(* should_send_alert, the scheduler callbacks and the pump API handlers.   *)
(*                                                                         *)
(* Every db.get / db.set / db.update is one atomic step (Database._lock);  *)
(* every `with auto_off_timer_lock:` block is one atomic step.  Between    *)
(* these steps the execution contexts interleave freely in Spec and in     *)
(* SpecTimer (pump endpoints, scheduler callbacks and timer threads); in   *)
(* SpecSeq one handler runs at a time; in SpecAlert the wall clock also    *)
(* advances between and inside the handlers; SpecCooldown applies          *)
(* should_send_alert on its own.  SpecSchedule applies the schedule        *)
(* compiler to any row, SpecLifecycle runs the schedule endpoints against  *)
(* the rows of the store, SpecSettings the startup load and the thresholds *)
(* endpoint, SpecOverride the samples, triggers and endpoints interleaved  *)
(* with no timer expiry.                                                   *)
(***************************************************************************)
EXTENDS Integers, Sequences, FiniteSets, TLC

VARIABLES
    db,              \* Database._state
    auto_off_timer,  \* global auto_off_timer: 0 is None, else a timer id
    timer,           \* state of the threading.Timer objects
    pc,              \* position of every execution context
    ret,             \* where a context continues after a pump primitive
    cur,             \* the pump primitive call a context is executing
    m,               \* locals of the on_message invocation
    running,         \* which trigger sources still deliver events
    clock,           \* datetime.now(config.LOCAL_TZ), in seconds
    serial,          \* "interleaved" or "commands" (threads interleave),
                     \* or handlers run one at a time and a history is
                     \* kept: "calls" or "alerts"
    actuator,        \* last command published on MQTT_TOPIC_CONTROL
    callHist,        \* history (serial runs): last two primitive calls
    sampleLog,       \* history (serial runs): samples processed in a row
    alertHist,       \* history: zone alert emissions per alert kind
    sa,              \* a should_send_alert call made on its own
    probe,           \* a call of Zone or get_current_mode made on its own
    lock,            \* Database._lock and the calls that are inside it
    scheduler,       \* the BackgroundScheduler: its job store
    oracle,          \* the external store: the saved settings row
    settings,        \* a set_automated_thresholds request and its position
    inbox,           \* telemetry received on the socket, not yet dispatched
    opCount          \* number of handler invocations started

vars == <<db, auto_off_timer, timer, pc, ret, cur, m, running, clock, serial,
          actuator, callHist, sampleLog, alertHist, sa, probe, lock,
          scheduler, oracle, settings, inbox, opCount>>

(***************************************************************************)
(* Bounds of the exploration                                               *)
(***************************************************************************)
\* threading.Timer objects that exist at the same time
MaxTimers == 2
\* handler invocations in one behaviour where the contexts interleave
MaxOps == 2
\* handler invocations in one behaviour where handlers run one at a time
MaxOpsSeq == 3
\* samples kept in sampleLog
MaxRun == 3
\* telemetry messages that arrive in a queued run
MaxArrivals == 2

(***************************************************************************)
(* Program constants                                                       *)
(***************************************************************************)
ALERT_COOLDOWN_CRITICAL == 3600
ALERT_COOLDOWN_INFO == 600
DefaultLow == 40
DefaultHigh == 80
DefaultMoisture == 50

None == "None"
\* None in a field that otherwise holds a timestamp
Never == -1
\* a payload "moisture" that is no number (null, a string): `:.1f` at line
\* 569 cannot format it
NotNumber == -2
\* a key the payload does not have: payload.get returns its default
Absent == -3

MQTT == <<"mqtt", 0>>
CRON == <<"cron", 0>>
API == <<"api", 0>>
MAIN == <<"main", 0>>
TimerThread(t) == <<"timer", t>>

Timers == 1..MaxTimers
Threads == {MQTT, CRON, API, MAIN} \cup {TimerThread(t) : t \in Timers}

AlertKinds == {"CRITICAL_LOW_MOISTURE", "NORMAL_MOISTURE",
               "CRITICAL_HIGH_MOISTURE"}

\* telemetry inputs: moisture values in and around the three zones
Moistures == {30, 41, 50, 90}
ZoneSamples == {30, 50, 90}
\* instants the wall clock visits in SpecSeq
Instants == {0, 1, 600, 3599, 3600}

NoCall == [fn |-> "none", on0 |-> FALSE, fresh |-> FALSE, pubs |-> <<>>,
           auds |-> 0, armed |-> 0]

(***************************************************************************)
(* Database.__init__ (lines 108-135)                                       *)
(***************************************************************************)
InitDb ==
    [pump_is_on |-> FALSE,
     last_known_flow_lpm |-> 0,
     last_known_moisture |-> DefaultMoisture,
     automated_mode_enabled |-> TRUE,
     critical_low_threshold |-> DefaultLow,
     critical_high_threshold |-> DefaultHigh,
     manual_override_active |-> FALSE,
     manual_override_state |-> None,
     allow_manual_override_at_any_moisture |-> TRUE,
     current_schedule_name |-> None,
     schedule_end_time |-> Never,
     last_critical_low_alert |-> Never,
     last_critical_high_alert |-> Never,
     last_normal_alert |-> Never]

InitM ==
    [payload |-> [form |-> "object", moisture |-> DefaultMoisture,
                  pump_status |-> "OFF", flow_rate |-> 0],
     db0 |-> InitDb,
     moisture |-> DefaultMoisture, old_pump_status |-> FALSE,
     new_pump_status |-> FALSE, now |-> 0,
     critical_low |-> DefaultLow, critical_high |-> DefaultHigh,
     manual_override_active |-> FALSE, manual_override_state |-> None,
     allow_override_at_any_moisture |-> TRUE,
     branch |-> "none", zone_alert |-> None, transition |-> None,
     pubs |-> <<>>]

(***************************************************************************)
(* The schedule compiler (lines 762-831) and the scheduler's job store     *)
(*   a schedule record is a row of the external store:                     *)
(*     id, duration_min, start_time_of_day, repeat_days, is_active         *)
(*   start_time_of_day is held as the parts of text.split(':') after       *)
(*   int(): a part that is not a number is NotNumber                       *)
(*   repeat_days is held as what the compiler looks at: whether the text   *)
(*   contains '-', and the days of the week it names (0 = mon .. 6 = sun)  *)
(*   a cron trigger is day_of_week, hour and minute                        *)
(***************************************************************************)
ScheduleNames == {"S1"}
ScheduleDuration == 15
ScheduleIds == {1, 2}
Days == 0 .. 6
MinutesPerDay == 24 * 60
MinutesPerWeek == 7 * MinutesPerDay

NoTrigger == [present |-> FALSE, days |-> {}, hour |-> 0, minute |-> 0]
NoJobs == [id \in ScheduleIds |-> [on |-> NoTrigger, off |-> NoTrigger]]

\* scheduler.remove_job for both suffixes, lines 824-831
remove_job_from_scheduler(jobs, schedule_id) == [jobs EXCEPT ![schedule_id] = [on |-> NoTrigger, off |-> NoTrigger]]

\* a missing job makes scheduler.remove_job raise and nothing catches it
remove_job_raises_uncaught(jobs, schedule_id) == ~jobs[schedule_id].on.present \/ ~jobs[schedule_id].off.present

\* lines 827-831: each scheduler.remove_job is inside its own try with
\* `except Exception: pass`, so nothing leaves _remove_job_from_scheduler
remove_job_raises(jobs, schedule_id) == FALSE

\* lines 769-775: int() of each part, time_parts[0..2], datetime.replace
time_raises(time_parts) ==
    \/ \E i \in 1 .. Len(time_parts) : time_parts[i] = NotNumber
    \/ Len(time_parts) < 3
    \/ time_parts[1] \notin 0 .. 23
    \/ time_parts[2] \notin 0 .. 59
    \/ time_parts[3] \notin 0 .. 59

\* line 784: repeat_days_str and '-' not in repeat_days_str
is_repeating(repeat_days) == repeat_days.days # {} /\ ~repeat_days.dash

\* lines 797-806
on_trigger(schedule_data) ==
    [present |-> TRUE,
     days |-> schedule_data.repeat_days.days,
     hour |-> schedule_data.start_time_of_day[1],
     minute |-> schedule_data.start_time_of_day[2]]

off_time_is_start(time_parts, duration) == (time_parts[1] * 60 + time_parts[2]) % MinutesPerDay

\* line 808: run_time_obj + timedelta(minutes=duration), then .hour, .minute
off_time(time_parts, duration) == (time_parts[1] * 60 + time_parts[2] + duration) % MinutesPerDay

\* lines 809-818
off_trigger(schedule_data) ==
    [present |-> TRUE,
     days |-> schedule_data.repeat_days.days,
     hour |-> off_time(schedule_data.start_time_of_day, schedule_data.duration_min) \div 60,
     minute |-> off_time(schedule_data.start_time_of_day, schedule_data.duration_min) % 60]

\* _add_or_update_job_in_scheduler, lines 762-821: the job store it leaves
add_or_update_job_keep_old(jobs, schedule_data) ==
    IF time_raises(schedule_data.start_time_of_day)
    THEN jobs
    ELSE IF remove_job_raises(jobs, schedule_data.id)
    THEN jobs
    ELSE IF schedule_data.is_active = 1 /\ is_repeating(schedule_data.repeat_days)
    THEN [jobs EXCEPT ![schedule_data.id] = [on |-> on_trigger(schedule_data), off |-> off_trigger(schedule_data)]]
    ELSE jobs

add_or_update_job_in_scheduler(jobs, schedule_data) ==
    IF time_raises(schedule_data.start_time_of_day)
    THEN jobs
    ELSE IF remove_job_raises(jobs, schedule_data.id)
    THEN jobs
    ELSE IF schedule_data.is_active = 1 /\ is_repeating(schedule_data.repeat_days)
    THEN [remove_job_from_scheduler(jobs, schedule_data.id) EXCEPT ![schedule_data.id] = [on |-> on_trigger(schedule_data), off |-> off_trigger(schedule_data)]]
    ELSE remove_job_from_scheduler(jobs, schedule_data.id)

\* line 820: an exception was caught and printed
add_or_update_job_failed(jobs, schedule_data) ==
    \/ time_raises(schedule_data.start_time_of_day)
    \/ remove_job_raises(jobs, schedule_data.id)

MonWedFri == [dash |-> FALSE, days |-> {0, 2, 4}]
LiteralDate == [dash |-> TRUE, days |-> {}]
EmptyDays == [dash |-> FALSE, days |-> {}]

\* the row the callbacks of ScheduleNames were compiled from
StartupRecord ==
    [id |-> 1, duration_min |-> ScheduleDuration,
     start_time_of_day |-> <<6, 0, 0>>, repeat_days |-> MonWedFri,
     is_active |-> 1]

NoCompile == [op |-> "none", rec |-> StartupRecord, before |-> [on |-> NoTrigger, off |-> NoTrigger], failed |-> FALSE]

\* lines 897-905: startup compiles the active rows of the store
\* the schedule rows of the external store when the backend starts: the
\* row of id 1; `issued` is the highest id the store has handed out
StartupStore ==
    [rows |-> [id \in ScheduleIds |-> [StartupRecord EXCEPT !.id = id, !.is_active = IF id = 1 THEN 1 ELSE 0]],
     live |-> {1},
     issued |-> 1]

StartupScheduler == [jobs |-> add_or_update_job_in_scheduler(NoJobs, StartupRecord), last |-> NoCompile, store |-> StartupStore]

(***************************************************************************)
(* Settings: the row of the external store (lines 326-366) and a           *)
(* set_automated_thresholds request (lines 1384-1422).  The position       *)
(* "startup" is lifespan before it has loaded the settings (line 858).     *)
(***************************************************************************)
ThresholdValues == {0, DefaultLow, DefaultHigh, 100}

SettingsRow(low, high, automated, allow) ==
    [present |-> TRUE,
     critical_low_threshold |-> low,
     critical_high_threshold |-> high,
     automated_mode_enabled |-> automated,
     allow_manual_override_at_any_moisture |-> allow]

NoSettingsRow == [SettingsRow(DefaultLow, DefaultHigh, TRUE, TRUE) EXCEPT !.present = FALSE]

\* the rows the store can hold when the backend starts
StoredRows == {NoSettingsRow} \cup {SettingsRow(l, h, a, TRUE) : l \in ThresholdValues, h \in ThresholdValues, a \in BOOLEAN}

NoRequest ==
    [pc |-> "idle", critical_low_threshold |-> DefaultLow,
     critical_high_threshold |-> DefaultHigh, status |-> "none",
     persisted |-> FALSE, broadcast |-> FALSE,
     low0 |-> DefaultLow, high0 |-> DefaultHigh]

\* line 1388
threshold_order_ok_or_equal(critical_low, critical_high) == critical_low <= critical_high

threshold_order_ok(critical_low, critical_high) == critical_low < critical_high

NoProbe == [fn |-> "none", ret |-> "none"]

\* no call is inside the lock
NoDbCall == [op |-> "none", key |-> None, kwargs |-> [manual_override_active |-> FALSE, manual_override_state |-> None], keys |-> <<>>]
NoLock == [held |-> {}, call |-> [th \in Threads |-> NoDbCall]]

InitThreads ==
    /\ auto_off_timer = 0
    /\ timer = [t \in Timers |-> "unborn"]
    /\ pc = [th \in Threads |-> "idle"]
    /\ ret = [th \in Threads |-> "idle"]
    /\ cur = [th \in Threads |-> NoCall]
    /\ m = InitM
    /\ running = [mqtt |-> TRUE, scheduler |-> TRUE, api |-> TRUE]
    /\ actuator = None
    /\ callHist = <<>>
    /\ sampleLog = <<>>
    /\ alertHist = [k \in AlertKinds |->
                       [stamp |-> Never, gap |-> Never, clean |-> TRUE,
                        other |-> FALSE]]
    /\ sa = [key |-> None, cooldown |-> 0, last |-> Never, at |-> 0,
             ret |-> FALSE]
    /\ probe = NoProbe
    /\ lock = NoLock
    /\ opCount = 0

\* nothing received yet; n numbers the messages in the order they arrive,
\* last is the number of the message on_message was called with last
NoInbox == [queue |-> <<>>, arrived |-> 0, last |-> 0]

InitRest ==
    /\ InitThreads
    /\ scheduler = StartupScheduler
    /\ oracle = SettingsRow(DefaultLow, DefaultHigh, TRUE, TRUE)
    /\ settings = NoRequest
    /\ inbox = NoInbox

InitCommon ==
    /\ db = InitDb
    /\ InitRest

Init ==
    /\ InitCommon
    /\ clock = 0
    /\ serial = "interleaved"

InitSeq ==
    /\ InitCommon
    /\ clock = 0
    /\ serial = "calls"

InitTimer ==
    /\ InitCommon
    /\ clock = 0
    /\ serial = "commands"

InitAlert ==
    /\ InitCommon
    /\ clock = 0
    /\ serial = "alerts"

\* every other execution context is between handlers
Quiet(th) == \A o \in Threads \ {th} : pc[o] = "idle"

Serial == serial \in {"calls", "alerts"}
KeepCalls == serial = "calls"
KeepAlerts == serial = "alerts"

(***************************************************************************)
(* threading.Timer                                                         *)
(*   unborn     no such object (or garbage: finished and unreferenced)     *)
(*   waiting    started, interval not elapsed, finished event unset        *)
(*   cancelled  cancel() came while waiting; the thread is about to end    *)
(*   firing     the interval elapsed and the function is running           *)
(*   firing_c   the function is running and cancel() was called meanwhile  *)
(*   dead       run() returned; auto_off_timer still refers to the object  *)
(***************************************************************************)
\* Thread.is_alive(): from start() until run() returns
is_alive(tm, t) == tm[t] \in {"waiting", "cancelled", "firing", "firing_c"}

\* Timer.cancel(): sets the finished event; this stops a timer that is
\* still waiting and cannot stop a function that is already running
cancel(tm, t) ==
    CASE tm[t] = "waiting" -> [tm EXCEPT ![t] = "cancelled"]
      [] tm[t] = "firing" -> [tm EXCEPT ![t] = "firing_c"]
      [] OTHER -> tm

\* a finished Timer object nothing refers to any more is garbage
Collect(tm, handle) ==
    [t \in Timers |-> IF tm[t] = "dead" /\ t # handle THEN "unborn" ELSE tm[t]]

\* started, not cancelled, not yet fired
Live(t) == timer[t] = "waiting"

\* db["pump_is_on"] is written: what the calls in progress read is stale
Stale(c) == [th \in Threads |-> [c[th] EXCEPT !.fresh = FALSE]]

\* db["pump_is_on"] is written outside the primitives after the last call
Disturb(h) ==
    IF Len(h) = 0 THEN h ELSE [h EXCEPT ![Len(h)].disturbed = TRUE]

\* a primitive returns; serial runs keep the last two calls
ReturnFrom(th, c) ==
    /\ pc' = [pc EXCEPT ![th] = ret[th]]
    /\ ret' = [ret EXCEPT ![th] = "idle"]
    /\ cur' = [cur EXCEPT ![th] = NoCall]
    /\ callHist' = IF ~KeepCalls THEN <<>>
                   ELSE LET e == [fn |-> c.fn, th |-> th, on0 |-> c.on0,
                                  pubs |-> c.pubs, auds |-> c.auds,
                                  armed |-> c.armed, disturbed |-> FALSE]
                        IN  IF Len(callHist) = 0 THEN <<e>>
                            ELSE <<callHist[Len(callHist)], e>>

Call(th, fn, cont) ==
    /\ pc' = [pc EXCEPT ![th] = fn]
    /\ ret' = [ret EXCEPT ![th] = cont]

\* publishes made by the on_message invocation in progress
NotePublish(th, cmd) ==
    IF th = MQTT THEN [m EXCEPT !.pubs = Append(@, cmd)] ELSE m

(***************************************************************************)
(* turn_pump_on (lines 707-735)                                            *)
(***************************************************************************)
\* turn_pump_on without its duplicate check
turn_pump_on_never_duplicate(pump_is_on) == FALSE

\* line 711: if db.get("pump_is_on"): return
turn_pump_on_is_duplicate(pump_is_on) == pump_is_on

\* arming without cancelling the outstanding timer
arm_without_cancel(tm, old, new) == [tm EXCEPT ![new] = "waiting"]

\* lines 724-733: under auto_off_timer_lock, cancel the outstanding timer
\* if it is alive, then create and start the new one
arm(tm, old, new) ==
    LET cancelled == IF old # 0 /\ is_alive(tm, old)
                     THEN cancel(tm, old) ELSE tm
    IN  [cancelled EXCEPT ![new] = "waiting"]

OnCheck(th) ==
    /\ pc[th] = "on_check"
    /\ IF turn_pump_on_is_duplicate(db.pump_is_on)
       THEN ReturnFrom(th, [NoCall EXCEPT !.fn = "on", !.on0 = TRUE])
       ELSE /\ pc' = [pc EXCEPT ![th] = "on_publish"]
            /\ cur' = [cur EXCEPT ![th] = [NoCall EXCEPT !.fn = "on",
                                                         !.fresh = TRUE]]
            /\ UNCHANGED <<ret, callHist>>
    /\ UNCHANGED <<db, auto_off_timer, timer, m, running, clock, serial,
                   actuator, sampleLog, alertHist, sa, probe, lock,
                   scheduler, oracle, settings, inbox, opCount>>

\* lines 715-720: the audit record is submitted and ON is published
OnPublish(th) ==
    /\ pc[th] = "on_publish"
    /\ actuator' = "ON"
    /\ cur' = [cur EXCEPT ![th].pubs = Append(@, "ON"), ![th].auds = @ + 1]
    /\ m' = NotePublish(th, "ON")
    /\ pc' = [pc EXCEPT ![th] = "on_set"]
    /\ UNCHANGED <<db, auto_off_timer, timer, ret, running, clock, serial,
                   callHist, sampleLog, alertHist, sa, probe, lock,
                   scheduler, oracle, settings, inbox, opCount>>

\* line 721
OnSet(th) ==
    /\ pc[th] = "on_set"
    /\ db' = [db EXCEPT !.pump_is_on = TRUE]
    /\ cur' = Stale(cur)
    /\ pc' = [pc EXCEPT ![th] = "on_arm"]
    /\ UNCHANGED <<auto_off_timer, timer, ret, m, running, clock, serial,
                   actuator, callHist, sampleLog, alertHist, sa, probe, lock,
                   scheduler, oracle, settings, inbox, opCount>>

OnArm(th) ==
    /\ pc[th] = "on_arm"
    /\ LET free == {t \in Timers : timer[t] \in {"unborn", "dead"}}
       IN  /\ free # {}
           /\ LET new == CHOOSE t \in free : \A u \in free : t <= u
              IN  /\ timer' = Collect(arm(timer, auto_off_timer, new), new)
                  /\ auto_off_timer' = new
                  /\ ReturnFrom(th, [cur[th] EXCEPT !.armed = new])
    /\ UNCHANGED <<db, m, running, clock, serial, actuator, sampleLog, alertHist, sa, probe, lock,
                   scheduler, oracle, settings, inbox, opCount>>

turn_pump_on(th) == OnCheck(th) \/ OnPublish(th) \/ OnSet(th) \/ OnArm(th)

(***************************************************************************)
(* turn_pump_off (lines 738-759)                                           *)
(***************************************************************************)
\* line 742: if not db.get("pump_is_on"): return
turn_pump_off_is_duplicate(pump_is_on) == ~pump_is_on

\* turn_pump_off dropping the handle without cancelling the timer
disarm_without_cancel(tm, old) == [timers |-> tm, handle |-> 0]

\* lines 754-757: under auto_off_timer_lock, cancel the outstanding timer if
\* it is alive and forget it
disarm(tm, old) ==
    IF old # 0 /\ is_alive(tm, old)
    THEN [timers |-> cancel(tm, old), handle |-> 0]
    ELSE [timers |-> tm, handle |-> old]

OffCheck(th) ==
    /\ pc[th] = "off_check"
    /\ IF turn_pump_off_is_duplicate(db.pump_is_on)
       THEN ReturnFrom(th, [NoCall EXCEPT !.fn = "off", !.on0 = FALSE])
       ELSE /\ pc' = [pc EXCEPT ![th] = "off_publish"]
            /\ cur' = [cur EXCEPT ![th] = [NoCall EXCEPT !.fn = "off",
                                                         !.on0 = TRUE,
                                                         !.fresh = TRUE]]
            /\ UNCHANGED <<ret, callHist>>
    /\ UNCHANGED <<db, auto_off_timer, timer, m, running, clock, serial,
                   actuator, sampleLog, alertHist, sa, probe, lock,
                   scheduler, oracle, settings, inbox, opCount>>

\* lines 746-751: the audit record is submitted and OFF is published
OffPublish(th) ==
    /\ pc[th] = "off_publish"
    /\ actuator' = "OFF"
    /\ cur' = [cur EXCEPT ![th].pubs = Append(@, "OFF"), ![th].auds = @ + 1]
    /\ m' = NotePublish(th, "OFF")
    /\ pc' = [pc EXCEPT ![th] = "off_set"]
    /\ UNCHANGED <<db, auto_off_timer, timer, ret, running, clock, serial,
                   callHist, sampleLog, alertHist, sa, probe, lock,
                   scheduler, oracle, settings, inbox, opCount>>

\* line 752
OffSet(th) ==
    /\ pc[th] = "off_set"
    /\ db' = [db EXCEPT !.pump_is_on = FALSE, !.last_known_flow_lpm = 0]
    /\ cur' = Stale(cur)
    /\ pc' = [pc EXCEPT ![th] = "off_disarm"]
    /\ UNCHANGED <<auto_off_timer, timer, ret, m, running, clock, serial,
                   actuator, callHist, sampleLog, alertHist, sa, probe, lock,
                   scheduler, oracle, settings, inbox, opCount>>

OffDisarm(th) ==
    /\ pc[th] = "off_disarm"
    /\ LET d == disarm(timer, auto_off_timer)
       IN  /\ timer' = Collect(d.timers, d.handle)
           /\ auto_off_timer' = d.handle
    /\ ReturnFrom(th, cur[th])
    /\ UNCHANGED <<db, m, running, clock, serial, actuator, sampleLog, alertHist, sa, probe, lock,
                   scheduler, oracle, settings, inbox, opCount>>

turn_pump_off(th) ==
    OffCheck(th) \/ OffPublish(th) \/ OffSet(th) \/ OffDisarm(th)

(***************************************************************************)
(* The auto-off threading.Timer thread (lines 728-733)                     *)
(***************************************************************************)
\* the interval elapses with the finished event unset: the function
\* lambda: turn_pump_off("Auto-shutoff") begins
TimerFire(t) ==
    /\ timer[t] = "waiting"
    /\ pc[TimerThread(t)] = "idle"
    /\ Serial => Quiet(TimerThread(t))
    /\ timer' = [timer EXCEPT ![t] = "firing"]
    /\ Call(TimerThread(t), "off_check", "timer_return")
    /\ sampleLog' = <<>>
    /\ UNCHANGED <<db, auto_off_timer, cur, m, running, clock, serial,
                   actuator, callHist, alertHist, sa, probe, lock,
                   scheduler, oracle, settings, inbox, opCount>>

\* the function returned, or the timer was cancelled while waiting: run()
\* ends and the thread is no longer alive
TimerExit(t) ==
    /\ Serial => Quiet(TimerThread(t))
    /\ \/ /\ pc[TimerThread(t)] = "timer_return"
          /\ timer[t] \in {"firing", "firing_c"}
       \/ /\ pc[TimerThread(t)] = "idle"
          /\ timer[t] = "cancelled"
    /\ timer' = Collect([timer EXCEPT ![t] = "dead"], auto_off_timer)
    /\ pc' = [pc EXCEPT ![TimerThread(t)] = "idle"]
    /\ UNCHANGED <<db, auto_off_timer, ret, cur, m, running, clock, serial,
                   actuator, callHist, sampleLog, alertHist, sa, probe, lock, scheduler, oracle, settings, inbox,
                   opCount>>

(***************************************************************************)
(* Start of a handler invocation                                           *)
(***************************************************************************)
Begin(th) ==
    /\ pc[th] = "idle"
    /\ Serial => Quiet(th)
    /\ opCount < (IF serial = "interleaved" THEN MaxOps ELSE MaxOpsSeq)
    /\ opCount' = opCount + 1

(***************************************************************************)
(* Scheduler callbacks (lines 785-795), run on the APScheduler worker      *)
(***************************************************************************)
start_scheduled_pump(name) ==
    /\ running.scheduler
    /\ Begin(CRON)
    /\ db' = [db EXCEPT !.current_schedule_name = name,
                        !.schedule_end_time = clock + ScheduleDuration * 60]
    /\ Call(CRON, "on_check", "idle")
    /\ sampleLog' = <<>>
    /\ UNCHANGED <<auto_off_timer, timer, cur, m, running, clock, serial,
                   actuator, callHist, alertHist, sa, probe, lock, scheduler, oracle, settings, inbox>>

stop_scheduled_pump ==
    /\ running.scheduler
    /\ Begin(CRON)
    /\ Call(CRON, "off_check", "stop_clear")
    /\ sampleLog' = <<>>
    /\ UNCHANGED <<db, auto_off_timer, timer, cur, m, running, clock, serial,
                   actuator, callHist, alertHist, sa, probe, lock, scheduler, oracle, settings, inbox>>

\* line 795
StopClear ==
    /\ pc[CRON] = "stop_clear"
    /\ db' = [db EXCEPT !.current_schedule_name = None,
                        !.schedule_end_time = Never]
    /\ pc' = [pc EXCEPT ![CRON] = "idle"]
    /\ UNCHANGED <<auto_off_timer, timer, ret, cur, m, running, clock, serial,
                   actuator, callHist, sampleLog, alertHist, sa, probe, lock, scheduler, oracle, settings, inbox,
                   opCount>>

(***************************************************************************)
(* Pump API handlers (lines 1144-1221), run on the event loop              *)
(***************************************************************************)
\* only the flag is reset, the requested state stays
override_cleared_flag_only(d) == [d EXCEPT !.manual_override_active = FALSE]

\* db.update(manual_override_active=False, manual_override_state=None),
\* lines 630 and 1206: one call, both fields under one acquisition of the lock
override_cleared(d) ==
    [d EXCEPT !.manual_override_active = FALSE, !.manual_override_state = None]

post_pump_on ==
    /\ running.api
    /\ Begin(API)
    /\ db' = [db EXCEPT !.manual_override_active = TRUE,
                        !.manual_override_state = "ON",
                        !.current_schedule_name = None,
                        !.schedule_end_time = Never]
    /\ Call(API, "on_check", "idle")
    /\ sampleLog' = <<>>
    /\ UNCHANGED <<auto_off_timer, timer, cur, m, running, clock, serial,
                   actuator, callHist, alertHist, sa, probe, lock, scheduler, oracle, settings, inbox>>

post_pump_off ==
    /\ running.api
    /\ Begin(API)
    /\ db' = [db EXCEPT !.manual_override_active = TRUE,
                        !.manual_override_state = "OFF",
                        !.current_schedule_name = None,
                        !.schedule_end_time = Never]
    /\ Call(API, "off_check", "idle")
    /\ sampleLog' = <<>>
    /\ UNCHANGED <<auto_off_timer, timer, cur, m, running, clock, serial,
                   actuator, callHist, alertHist, sa, probe, lock, scheduler, oracle, settings, inbox>>

clear_manual_override ==
    /\ running.api
    /\ Begin(API)
    /\ db' = override_cleared(db)
    /\ sampleLog' = <<>>
    /\ UNCHANGED <<auto_off_timer, timer, pc, ret, cur, m, running, clock,
                   serial, actuator, callHist, alertHist, sa, probe, lock, scheduler, oracle, settings, inbox>>

\* lines 1471-1476
toggle_manual_override_safety ==
    /\ running.api
    /\ Begin(API)
    /\ db' = [db EXCEPT !.allow_manual_override_at_any_moisture = ~@]
    /\ sampleLog' = <<>>
    /\ UNCHANGED <<auto_off_timer, timer, pc, ret, cur, m, running, clock,
                   serial, actuator, callHist, alertHist, sa, probe, lock, scheduler, oracle, settings, inbox>>

\* what the settings endpoints hand to oracle.save_settings; saved is its
\* answer
SaveSettings(d, saved) ==
    IF saved
    THEN SettingsRow(d.critical_low_threshold, d.critical_high_threshold, d.automated_mode_enabled, d.allow_manual_override_at_any_moisture)
    ELSE oracle

\* lines 1426-1448
enable_automated_mode(saved) ==
    /\ running.api
    /\ Begin(API)
    /\ IF db.automated_mode_enabled
       THEN UNCHANGED <<db, oracle>>
       ELSE /\ db' = [db EXCEPT !.automated_mode_enabled = TRUE,
                                !.manual_override_active = FALSE,
                                !.manual_override_state = None]
            /\ oracle' = SaveSettings(db', saved)
    /\ sampleLog' = <<>>
    /\ UNCHANGED <<auto_off_timer, timer, pc, ret, cur, m, running, clock,
                   serial, actuator, callHist, alertHist, sa, probe, lock,
                   scheduler, settings, inbox>>

\* lines 1451-1469
disable_automated_mode(saved) ==
    /\ running.api
    /\ Begin(API)
    /\ IF ~db.automated_mode_enabled
       THEN UNCHANGED <<db, oracle>>
       ELSE /\ db' = [db EXCEPT !.automated_mode_enabled = FALSE]
            /\ oracle' = SaveSettings(db', saved)
    /\ sampleLog' = <<>>
    /\ UNCHANGED <<auto_off_timer, timer, pc, ret, cur, m, running, clock,
                   serial, actuator, callHist, alertHist, sa, probe, lock,
                   scheduler, settings, inbox>>

(***************************************************************************)
(* should_send_alert (lines 528-536)                                       *)
(***************************************************************************)
should_send_alert_strict(last_alert_time, now, cooldown_seconds) ==
    IF last_alert_time = Never THEN TRUE
    ELSE (now - last_alert_time) > cooldown_seconds

should_send_alert(last_alert_time, now, cooldown_seconds) ==
    IF last_alert_time = Never THEN TRUE
    ELSE (now - last_alert_time) >= cooldown_seconds

(***************************************************************************)
(* on_message (lines 539-695), run on the paho network thread              *)
(***************************************************************************)
\* the if / elif / elif chain of lines 577, 592, 607
Zone_open_above(moisture, critical_low, critical_high) ==
    IF moisture < critical_low THEN "low"
    ELSE IF critical_low <= moisture /\ moisture < critical_high THEN "normal"
    ELSE IF moisture >= critical_high THEN "high"
    ELSE "none"

Zone(moisture, critical_low, critical_high) ==
    IF moisture < critical_low THEN "low"
    ELSE IF critical_low <= moisture /\ moisture <= critical_high THEN "normal"
    ELSE IF moisture > critical_high THEN "high"
    ELSE "none"

\* get_current_mode, lines 516-525, applied to the state d
get_current_mode_schedule_first(d) ==
    IF d.current_schedule_name # None THEN "SCHEDULED"
    ELSE IF d.manual_override_active THEN "MANUAL"
    ELSE IF d.automated_mode_enabled THEN "AUTOMATED"
    ELSE "IDLE"

get_current_mode(d) ==
    IF d.manual_override_active THEN "MANUAL"
    ELSE IF d.current_schedule_name # None THEN "SCHEDULED"
    ELSE IF d.automated_mode_enabled THEN "AUTOMATED"
    ELSE "IDLE"

ZoneKey(z) ==
    CASE z = "low" -> "last_critical_low_alert"
      [] z = "normal" -> "last_normal_alert"
      [] z = "high" -> "last_critical_high_alert"

ZoneKind(z) ==
    CASE z = "low" -> "CRITICAL_LOW_MOISTURE"
      [] z = "normal" -> "NORMAL_MOISTURE"
      [] z = "high" -> "CRITICAL_HIGH_MOISTURE"

\* every zone on the short cooldown
ZoneCooldown_info(z) == ALERT_COOLDOWN_INFO

ZoneCooldown(z) ==
    IF z = "normal" THEN ALERT_COOLDOWN_INFO ELSE ALERT_COOLDOWN_CRITICAL

\* the trackers of the other zones are left as they are
zone_trackers_keep_others(d, z, send, now) ==
    [d EXCEPT ![ZoneKey(z)] = IF send THEN now ELSE d[ZoneKey(z)]]

\* lines 584-589, 599-604, 614-619: the zone's tracker takes `now` when the
\* alert is sent, the trackers of the two other zones are reset
zone_trackers(d, z, send, now) ==
    LET hot == IF send THEN now ELSE d[ZoneKey(z)]
    IN  CASE z = "low" ->
               [d EXCEPT !.last_critical_low_alert = hot,
                         !.last_normal_alert = Never,
                         !.last_critical_high_alert = Never]
          [] z = "normal" ->
               [d EXCEPT !.last_normal_alert = hot,
                         !.last_critical_low_alert = Never,
                         !.last_critical_high_alert = Never]
          [] z = "high" ->
               [d EXCEPT !.last_critical_high_alert = hot,
                         !.last_normal_alert = Never,
                         !.last_critical_low_alert = Never]

\* the emergency condition with the interlock flag read the wrong way
emergency_inverted(moisture, critical_high, allow_override_at_any_moisture, new_pump_status) ==
    /\ moisture > critical_high
    /\ allow_override_at_any_moisture
    /\ new_pump_status

\* the emergency condition without the interlock flag
emergency_always(moisture, critical_high, allow_override_at_any_moisture, new_pump_status) ==
    /\ moisture > critical_high
    /\ new_pump_status

\* line 625-626
emergency(moisture, critical_high, allow_override_at_any_moisture, new_pump_status) ==
    /\ moisture > critical_high
    /\ ~allow_override_at_any_moisture
    /\ new_pump_status

\* line 637: both values are truthy
manual_enforced(manual_override_active, manual_override_state) ==
    manual_override_active /\ manual_override_state # None

\* a manual branch that enforces ON only
manual_command_on_only(manual_override_state, new_pump_status) ==
    CASE manual_override_state = "ON" /\ ~new_pump_status -> "on_check"
      [] OTHER -> "msg_alerts"

\* lines 638-645: the primitive the manual branch calls, if any
manual_command(manual_override_state, new_pump_status) ==
    CASE manual_override_state = "ON" /\ ~new_pump_status -> "on_check"
      [] manual_override_state # "ON" /\ new_pump_status -> "off_check"
      [] OTHER -> "msg_alerts"

\* the automated branch as an `if` of its own, run after the manual one
after_manual_falls_through(manual_override_active) == "msg_auto"

\* line 651: the automated branch is the `elif` of the manual one, so
\* after the manual branch control is at line 673
after_manual(manual_override_active) == "msg_alerts"

\* the automated branch with a dead band: nothing is commanded in range
automated_command_dead_band(moisture, critical_low, critical_high, pump_on) ==
    CASE moisture < critical_low /\ ~pump_on -> "on_check"
      [] moisture > critical_high /\ pump_on -> "off_check"
      [] OTHER -> "msg_alerts"

\* an automated branch that turns the pump on anywhere below critical_high
automated_command_on_in_range(moisture, critical_low, critical_high, pump_on) ==
    CASE moisture < critical_high /\ ~pump_on -> "on_check"
      [] critical_low <= moisture /\ moisture <= critical_high /\ pump_on
            -> "off_check"
      [] moisture > critical_high /\ pump_on -> "off_check"
      [] OTHER -> "msg_alerts"

\* lines 655-667: the primitive the automated branch calls, if any
automated_command(moisture, critical_low, critical_high, pump_on) ==
    CASE moisture < critical_low /\ ~pump_on -> "on_check"
      [] critical_low <= moisture /\ moisture <= critical_high /\ pump_on
            -> "off_check"
      [] moisture > critical_high /\ pump_on -> "off_check"
      [] OTHER -> "msg_alerts"

\* the sample as sampleLog keeps it
LogEntry(loc, pump_after) ==
    [moisture |-> loc.moisture, reported |-> loc.new_pump_status,
     before |-> loc.old_pump_status, after |-> pump_after,
     branch |-> loc.branch]

\* on_message returns with the locals loc; serial runs keep them and the
\* samples processed back to back
FinishWith(loc) ==
    /\ pc' = [pc EXCEPT ![MQTT] = "idle"]
    /\ m' = IF KeepCalls THEN loc ELSE InitM
    /\ sampleLog' =
          IF ~KeepCalls THEN <<>>
          ELSE LET e == LogEntry(loc, db'.pump_is_on)
               IN  IF Len(sampleLog) < MaxRun THEN Append(sampleLog, e)
                   ELSE Append(Tail(sampleLog), e)

Finish == FinishWith(m)

\* a try block that begins only after the payload is decoded
try_after_decode(line) == 542 < line /\ line < 694

\* the statements inside try: (line 541) ... except Exception (line 694)
try_covers(line) == 541 < line /\ line < 694

\* an exception raised at `line`: the handler of lines 694-695 logs it and
\* on_message returns; an exception outside the try block would end the
\* network thread
Raise(loc, line) ==
    /\ FinishWith([loc EXCEPT !.branch = "error"])
    /\ running' = [running EXCEPT !.mqtt = try_covers(line)]

\* line 542 raises on bytes that are no JSON document, line 545 on a
\* document that is no object (it has no .get); 0: neither raises
decode_raises_at(form) ==
    CASE form = "not_json" -> 542
      [] form = "not_object" -> 545
      [] OTHER -> 0

\* payloads whose fields are all there and valid
WellFormed(samples) ==
    [form : {"object"}, moisture : samples, pump_status : {"ON", "OFF"},
     flow_rate : {0}]

\* the network thread of loop_start (line 855) hands the messages to
\* on_message one by one, a runs-to-completion call each; queued runs draw
\* the payload from the socket, the others from the set of payloads
Queued == serial = "queue"

\* the newest message first
take_newest(queue) == [msg |-> queue[Len(queue)], rest |-> SubSeq(queue, 1, Len(queue) - 1)]

\* the socket is read in the order the broker wrote it
take(queue) == [msg |-> Head(queue), rest |-> Tail(queue)]

\* a message arrives on the socket
Arrive(p) ==
    /\ running.mqtt
    /\ Queued
    /\ inbox.arrived < MaxArrivals
    /\ inbox' = [inbox EXCEPT !.queue = Append(@, [n |-> inbox.arrived + 1, payload |-> p]),
                              !.arrived = @ + 1]
    /\ UNCHANGED <<db, auto_off_timer, timer, pc, ret, cur, m, running, clock,
                   serial, actuator, callHist, sampleLog, alertHist, sa, probe, lock,
                   scheduler, oracle, settings, opCount>>

\* lines 542-545: the payload is decoded and the old status is read
MsgStart(p) ==
    /\ running.mqtt
    /\ Begin(MQTT)
    /\ db' = db
    /\ LET loc == [InitM EXCEPT !.payload = p,
                                !.moisture = p.moisture,
                                !.new_pump_status = (p.pump_status = "ON"),
                                !.old_pump_status = db.pump_is_on,
                                !.db0 = IF KeepCalls THEN db ELSE InitDb]
       IN  IF decode_raises_at(p.form) # 0
           THEN Raise(loc, decode_raises_at(p.form))
           ELSE /\ m' = loc
                /\ pc' = [pc EXCEPT ![MQTT] = "msg_update"]
                /\ UNCHANGED <<running, sampleLog>>
    /\ IF Queued
       THEN /\ inbox.queue # <<>>
            /\ p = take(inbox.queue).msg.payload
            /\ inbox' = [inbox EXCEPT !.queue = take(inbox.queue).rest,
                                      !.last = take(inbox.queue).msg.n]
       ELSE inbox' = inbox
    /\ UNCHANGED <<auto_off_timer, timer, ret, cur, clock, serial, actuator,
                   callHist, alertHist, sa, probe, lock, scheduler, oracle, settings>>

\* lines 547-553: the sample is merged into the state; a missing moisture
\* defaults to the stored one
MsgUpdate ==
    /\ pc[MQTT] = "msg_update"
    /\ db' = [db EXCEPT !.last_known_flow_lpm = m.payload.flow_rate,
                        !.pump_is_on = m.new_pump_status,
                        !.last_known_moisture =
                            IF m.payload.moisture = Absent
                            THEN db.last_known_moisture
                            ELSE m.payload.moisture]
    /\ cur' = Stale(cur)
    /\ callHist' = Disturb(callHist)
    /\ pc' = [pc EXCEPT ![MQTT] = "msg_load1"]
    /\ UNCHANGED <<auto_off_timer, timer, ret, m, running, clock,
                   serial, actuator, sampleLog, alertHist, sa, probe, lock,
                   scheduler, oracle, settings, inbox, opCount>>

\* lines 555-562
MsgLoad1 ==
    /\ pc[MQTT] = "msg_load1"
    /\ m' = [m EXCEPT !.moisture = db.last_known_moisture,
                      !.now = clock,
                      !.critical_low = db.critical_low_threshold,
                      !.critical_high = db.critical_high_threshold,
                      !.manual_override_active = db.manual_override_active]
    /\ pc' = [pc EXCEPT ![MQTT] = "msg_load2"]
    /\ UNCHANGED <<db, auto_off_timer, timer, ret, cur, running, clock,
                   serial, actuator, callHist, sampleLog,
                   alertHist, sa, probe, lock,
                   scheduler, oracle, settings, inbox, opCount>>

\* lines 563-570: the last reads, then the log line that formats moisture
MsgLoad2 ==
    /\ pc[MQTT] = "msg_load2"
    /\ db' = db
    /\ LET loc == [m EXCEPT !.manual_override_state =
                                db.manual_override_state,
                            !.allow_override_at_any_moisture =
                                db.allow_manual_override_at_any_moisture]
       IN  IF m.moisture = NotNumber
           THEN Raise(loc, 569)
           ELSE /\ m' = loc
                /\ pc' = [pc EXCEPT ![MQTT] = "msg_zone"]
                /\ UNCHANGED <<running, sampleLog>>
    /\ UNCHANGED <<auto_off_timer, timer, ret, cur, clock,
                   serial, actuator, callHist, alertHist, sa, probe, lock,
                   scheduler, oracle, settings, inbox, opCount>>

\* history of the zone alert emissions, kept in serial runs
NoteAlert(h, kind, send, now, at) ==
    [k \in AlertKinds |->
        IF k = kind
        THEN IF send
             THEN [stamp |-> now,
                   gap |-> IF h[k].stamp = Never THEN Never
                           ELSE at - h[k].stamp,
                   clean |-> ~h[k].other,
                   other |-> FALSE]
             ELSE h[k]
        ELSE IF h[k].stamp = Never THEN h[k]
             ELSE [h[k] EXCEPT !.other = TRUE]]

\* lines 576-645: moisture monitoring, then the emergency and the manual
\* branch, which work on the values read above
MsgZone ==
    /\ pc[MQTT] = "msg_zone"
    /\ LET z == Zone(m.moisture, m.critical_low, m.critical_high)
           send == should_send_alert(db[ZoneKey(z)], clock, ZoneCooldown(z))
       IN  /\ db' = zone_trackers(db, z, send, m.now)
           /\ alertHist' = IF KeepAlerts
                           THEN NoteAlert(alertHist, ZoneKind(z), send,
                                          m.now, clock)
                           ELSE alertHist
    /\ LET z == Zone(m.moisture, m.critical_low, m.critical_high)
           loc == [m EXCEPT !.zone_alert =
                      IF should_send_alert(db[ZoneKey(z)], clock, ZoneCooldown(z))
                      THEN ZoneKind(z) ELSE None]
       IN  IF emergency(m.moisture, m.critical_high,
                        m.allow_override_at_any_moisture, m.new_pump_status)
           THEN /\ Call(MQTT, "off_check", "msg_emergency_clear")
                /\ m' = [loc EXCEPT !.branch = "emergency"]
           ELSE IF manual_enforced(m.manual_override_active,
                                   m.manual_override_state)
           THEN /\ Call(MQTT, manual_command(m.manual_override_state,
                                             m.new_pump_status),
                        after_manual(m.manual_override_active))
                /\ m' = [loc EXCEPT !.branch = "manual"]
           ELSE /\ pc' = [pc EXCEPT ![MQTT] = "msg_auto"]
                /\ m' = loc
                /\ UNCHANGED ret
    /\ UNCHANGED <<auto_off_timer, timer, cur, running, clock, serial,
                   actuator, callHist, sampleLog, sa, probe, lock,
                   scheduler, oracle, settings, inbox, opCount>>

\* lines 629-631: the override is cleared and on_message returns
MsgEmergencyClear ==
    /\ pc[MQTT] = "msg_emergency_clear"
    /\ db' = override_cleared(db)
    /\ Finish
    /\ UNCHANGED <<auto_off_timer, timer, ret, cur, running, clock, serial,
                   actuator, callHist, alertHist, sa, probe, lock,
                   scheduler, oracle, settings, inbox, opCount>>

\* lines 651-667
MsgAuto ==
    /\ pc[MQTT] = "msg_auto"
    /\ IF db.automated_mode_enabled
       THEN /\ Call(MQTT, automated_command(m.moisture, m.critical_low,
                                            m.critical_high, db.pump_is_on),
                    "msg_alerts")
            /\ m' = [m EXCEPT !.branch = "automated"]
       ELSE /\ pc' = [pc EXCEPT ![MQTT] = "msg_alerts"]
            /\ m' = [m EXCEPT !.branch = "idle"]
            /\ UNCHANGED ret
    /\ UNCHANGED <<db, auto_off_timer, timer, cur, running, clock, serial,
                   actuator, callHist, sampleLog, alertHist, sa, probe, lock, scheduler, oracle, settings, inbox,
                   opCount>>

\* lines 673-685: the alert submitted for a pump state change, if any
transition_alert(old_pump_status, new_pump_status) ==
    IF old_pump_status # new_pump_status
    THEN IF new_pump_status THEN "PUMP_ON" ELSE "PUMP_OFF"
    ELSE None

\* lines 673-692: pump state change alert; line 688 reads the schedule name
MsgAlerts ==
    /\ pc[MQTT] = "msg_alerts"
    /\ LET loc == [m EXCEPT !.transition = transition_alert(m.old_pump_status, m.new_pump_status)]
       IN  IF m.old_pump_status # m.new_pump_status /\ ~m.new_pump_status
              /\ db.current_schedule_name # None
           THEN /\ pc' = [pc EXCEPT ![MQTT] = "msg_clear_schedule"]
                /\ m' = loc
                /\ UNCHANGED <<db, sampleLog>>
           ELSE /\ db' = db
                /\ FinishWith(loc)
    /\ UNCHANGED <<auto_off_timer, timer, ret, cur, running, clock, serial,
                   actuator, callHist, alertHist, sa, probe, lock,
                   scheduler, oracle, settings, inbox, opCount>>

\* line 689
MsgClearSchedule ==
    /\ pc[MQTT] = "msg_clear_schedule"
    /\ db' = [db EXCEPT !.current_schedule_name = None,
                        !.schedule_end_time = Never]
    /\ Finish
    /\ UNCHANGED <<auto_off_timer, timer, ret, cur, running, clock, serial,
                   actuator, callHist, alertHist, sa, probe, lock,
                   scheduler, oracle, settings, inbox, opCount>>

on_message(payloads) ==
    \/ \E p \in payloads : MsgStart(p)
    \/ MsgUpdate \/ MsgLoad1 \/ MsgLoad2 \/ MsgZone \/ MsgEmergencyClear
    \/ MsgAuto \/ MsgAlerts \/ MsgClearSchedule

(***************************************************************************)
(* Shutdown (lifespan, lines 922-937), run on the event loop once the      *)
(* server has stopped serving requests                                     *)
(***************************************************************************)
\* line 925
Shutdown ==
    /\ running.api
    /\ pc[API] = "idle"
    /\ Begin(MAIN)
    /\ running' = [running EXCEPT !.api = FALSE]
    /\ Call(MAIN, "off_check", "shutdown_cancel")
    /\ sampleLog' = <<>>
    /\ UNCHANGED <<db, auto_off_timer, timer, cur, m, clock, serial,
                   actuator, callHist, alertHist, sa, probe, lock, scheduler, oracle, settings, inbox>>

\* lines 928-930: the timer is cancelled, the reference is kept
ShutdownCancel ==
    /\ pc[MAIN] = "shutdown_cancel"
    /\ timer' = IF auto_off_timer # 0 /\ is_alive(timer, auto_off_timer)
                THEN cancel(timer, auto_off_timer) ELSE timer
    /\ pc' = [pc EXCEPT ![MAIN] = "shutdown_mqtt"]
    /\ UNCHANGED <<db, auto_off_timer, ret, cur, m, running, clock, serial,
                   actuator, callHist, sampleLog, alertHist, sa, probe, lock, scheduler, oracle, settings, inbox,
                   opCount>>

\* lines 932-933: loop_stop() joins the network thread
ShutdownMqtt ==
    /\ pc[MAIN] = "shutdown_mqtt"
    /\ pc[MQTT] = "idle"
    /\ running' = [running EXCEPT !.mqtt = FALSE]
    /\ pc' = [pc EXCEPT ![MAIN] = "shutdown_scheduler"]
    /\ UNCHANGED <<db, auto_off_timer, timer, ret, cur, m, clock, serial,
                   actuator, callHist, sampleLog, alertHist, sa, probe, lock, scheduler, oracle, settings, inbox,
                   opCount>>

\* line 936: scheduler.shutdown(wait=False): no further job is started
ShutdownScheduler ==
    /\ pc[MAIN] = "shutdown_scheduler"
    /\ running' = [running EXCEPT !.scheduler = FALSE]
    /\ pc' = [pc EXCEPT ![MAIN] = "idle"]
    /\ UNCHANGED <<db, auto_off_timer, timer, ret, cur, m, clock, serial,
                   actuator, callHist, sampleLog, alertHist, sa, probe, lock, scheduler, oracle, settings, inbox,
                   opCount>>

(***************************************************************************)
(* The wall clock                                                          *)
(***************************************************************************)
\* the clock is read when a handler starts and at line 534, so time that
\* passes elsewhere is time that passes before the next of these points
Tick ==
    /\ \/ \A th \in Threads : pc[th] = "idle"
       \/ pc[MQTT] = "msg_zone"
    /\ \E t \in Instants : t > clock /\ clock' = t
    /\ UNCHANGED <<db, auto_off_timer, timer, pc, ret, cur, m, running,
                   serial, actuator, callHist, sampleLog,
                   alertHist, sa, probe, lock,
                   scheduler, oracle, settings, inbox, opCount>>

(***************************************************************************)
(* Specifications                                                          *)
(***************************************************************************)
\* the two primitives, in whichever execution context called them
Primitives == \E th \in Threads : turn_pump_on(th) \/ turn_pump_off(th)

Cron ==
    \/ \E n \in ScheduleNames : start_scheduled_pump(n)
    \/ stop_scheduled_pump
    \/ StopClear

Api ==
    \/ post_pump_on
    \/ post_pump_off
    \/ clear_manual_override
    \/ toggle_manual_override_safety

Lifespan == Shutdown \/ ShutdownCancel \/ ShutdownMqtt \/ ShutdownScheduler

TimerThreads == \E t \in Timers : TimerFire(t) \/ TimerExit(t)

\* all execution contexts interleave
Next ==
    \/ Primitives
    \/ on_message(WellFormed(ZoneSamples))
    \/ Cron
    \/ Api
    \/ Lifespan
    \/ TimerThreads

Spec == Init /\ [][Next]_vars

\* samples that leave a moisture other than the constructed one
OverrideSamples == {30, 90}

\* the network thread, the scheduler worker and the event loop interleave;
\* no timer expires and the backend is not shut down
NextOverride ==
    \/ Primitives
    \/ on_message(WellFormed(OverrideSamples))
    \/ Cron
    \/ Api

SpecOverride == Init /\ [][NextOverride]_vars

\* one handler at a time (serial holds from InitSeq on)
NextSeq ==
    \/ Primitives
    \/ on_message(WellFormed(Moistures))
    \/ Cron
    \/ Api
    \/ Lifespan
    \/ TimerThreads

SpecSeq == InitSeq /\ [][NextSeq]_vars

\* the pump endpoints on the event loop and the scheduler callbacks
\* interleave with each other and with the timer threads
NextTimer ==
    \/ Primitives
    \/ post_pump_on
    \/ post_pump_off
    \/ Cron
    \/ TimerThreads

SpecTimer == InitTimer /\ [][NextTimer]_vars

\* telemetry of every form: undecodable bytes, a JSON document that is no
\* object, objects with a missing or invalid moisture, a missing
\* pump_status, a flow rate
AnyPayloads ==
    [form : {"object"}, moisture : {30, 90, NotNumber, Absent},
     pump_status : {"ON", "OFF", "absent"}, flow_rate : {0, 5}]
    \cup [form : {"not_json", "not_object"}, moisture : {Absent},
          pump_status : {"absent"}, flow_rate : {0}]

\* one handler at a time, the telemetry of every form
NextIngress ==
    \/ Primitives
    \/ on_message(AnyPayloads)
    \/ Cron
    \/ Api
    \/ TimerThreads

SpecIngress == InitSeq /\ [][NextIngress]_vars

\* one handler at a time, while time passes
NextAlert ==
    \/ Primitives
    \/ on_message(WellFormed(ZoneSamples))
    \/ Cron
    \/ Api
    \/ TimerThreads
    \/ Tick

SpecAlert == InitAlert /\ [][NextAlert]_vars

\* should_send_alert applied on its own to any tracker at any instant
CooldownInstants == {0, 1, 599, 600, 601, 3599, 3600, 3601}
AlertKeys == {"last_critical_low_alert", "last_normal_alert",
              "last_critical_high_alert"}

\* one tracker at most holds the `now` of an earlier sample
InitCooldown ==
    /\ InitRest
    /\ serial = "calls"
    /\ clock \in CooldownInstants
    /\ \E key \in AlertKeys, t \in CooldownInstants \cup {Never} :
          /\ t <= clock
          /\ db = [InitDb EXCEPT ![key] = t]

CallShouldSendAlert(key, cooldown) ==
    /\ sa' = [key |-> key, cooldown |-> cooldown, last |-> db[key],
              at |-> clock,
              ret |-> should_send_alert(db[key], clock, cooldown)]
    /\ UNCHANGED <<db, auto_off_timer, timer, pc, ret, cur, m, running,
                   clock, serial, actuator, callHist, sampleLog, alertHist,
                   probe, lock, scheduler, oracle, settings, inbox, opCount>>

NextCooldown ==
    \E key \in AlertKeys,
          c \in {ALERT_COOLDOWN_CRITICAL, ALERT_COOLDOWN_INFO} :
          CallShouldSendAlert(key, c)

SpecCooldown == InitCooldown /\ [][NextCooldown]_vars

\* Zone and get_current_mode applied on their own to any state: moistures
\* on, next to and away from each threshold
ProbeMoistures == {0, 39, 40, 41, 50, 79, 80, 81, 100}

InitProbe ==
    /\ InitRest
    /\ serial = "calls"
    /\ clock = 0
    /\ \E mo \in ProbeMoistures, lo \in ThresholdValues, hi \in ThresholdValues, man \in BOOLEAN, st \in {None, "ON", "OFF"}, sch \in ScheduleNames \cup {None}, aut \in BOOLEAN :
          db = [InitDb EXCEPT !.last_known_moisture = mo,
                              !.critical_low_threshold = lo,
                              !.critical_high_threshold = hi,
                              !.manual_override_active = man,
                              !.manual_override_state = st,
                              !.current_schedule_name = sch,
                              !.automated_mode_enabled = aut]

ProbeFrame == <<db, auto_off_timer, timer, pc, ret, cur, m, running, clock, serial, actuator, callHist, sampleLog, alertHist, sa, lock, scheduler, oracle, settings, inbox, opCount>>

\* lines 577, 592, 607 on the moisture and the thresholds of the state
CallZone ==
    /\ probe' = [fn |-> "Zone", ret |-> Zone(db.last_known_moisture, db.critical_low_threshold, db.critical_high_threshold)]
    /\ UNCHANGED ProbeFrame

\* line 566
CallGetCurrentMode ==
    /\ probe' = [fn |-> "get_current_mode", ret |-> get_current_mode(db)]
    /\ UNCHANGED ProbeFrame

NextProbe == CallZone \/ CallGetCurrentMode

SpecProbe == InitProbe /\ [][NextProbe]_vars

(***************************************************************************)
(* Database (lines 135-152): every method body runs inside                 *)
(* `with self._lock`.  A call enters the lock, does its reads or writes    *)
(* one dictionary entry at a time, and leaves the lock.                    *)
(***************************************************************************)
\* threads that call the Database methods on their own
DbCallers == {API, CRON, MQTT}

\* the multi-field updates of the override fields: lines 1150, 1180, 630
UpdateCalls == {[manual_override_active |-> TRUE, manual_override_state |-> "ON"], [manual_override_active |-> TRUE, manual_override_state |-> "OFF"], [manual_override_active |-> FALSE, manual_override_state |-> None]}

\* a lock that lets every caller in
acquire_unlocked(held) == TRUE

\* threading.Lock: `with self._lock` waits until nobody holds it
acquire(held) == held = {}

DbFrame == <<auto_off_timer, timer, ret, cur, m, running, clock, serial, actuator, callHist, sampleLog, alertHist, sa, scheduler, oracle, settings, inbox, opCount>>

Enter(th, call) ==
    /\ th \in DbCallers
    /\ pc[th] = "idle"
    /\ acquire(lock.held)
    /\ lock' = [held |-> lock.held \cup {th}, call |-> [lock.call EXCEPT ![th] = call]]
    /\ pc' = [pc EXCEPT ![th] = "db_locked"]
    /\ UNCHANGED <<db, probe>>
    /\ UNCHANGED DbFrame

\* lines 145-147: update(**kwargs)
DbUpdate(th, kwargs) == Enter(th, [op |-> "update", key |-> None, kwargs |-> kwargs, keys |-> <<"manual_override_active", "manual_override_state">>])

\* lines 141-143: set(key, value), as at lines 1456 and 1476
DbSet(th, value) == Enter(th, [op |-> "set", key |-> "automated_mode_enabled", kwargs |-> [automated_mode_enabled |-> value], keys |-> <<"automated_mode_enabled">>])

\* lines 137-139: get(key)
DbGet(th, key) == Enter(th, [NoDbCall EXCEPT !.op = "get", !.key = key])

\* lines 149-152: the state property
DbState(th) == Enter(th, [NoDbCall EXCEPT !.op = "state"])

\* one entry of the dictionary is written
DbWrite(th) ==
    /\ th \in lock.held
    /\ lock.call[th].keys # <<>>
    /\ LET k == Head(lock.call[th].keys)
       IN  db' = [db EXCEPT ![k] = lock.call[th].kwargs[k]]
    /\ lock' = [lock EXCEPT !.call[th].keys = Tail(@)]
    /\ UNCHANGED <<pc, probe>>
    /\ UNCHANGED DbFrame

\* the method returns and the lock is released; get and state return what
\* they read
DbReturn(th) ==
    /\ th \in lock.held
    /\ lock.call[th].keys = <<>>
    /\ probe' = CASE lock.call[th].op = "state" ->
                       [fn |-> "state", ret |-> [manual_override_active |-> db.manual_override_active, manual_override_state |-> db.manual_override_state]]
                  [] lock.call[th].op = "get" ->
                       [fn |-> "get", ret |-> [value |-> db[lock.call[th].key]]]
                  [] OTHER -> probe
    /\ lock' = [held |-> lock.held \ {th}, call |-> [lock.call EXCEPT ![th] = NoDbCall]]
    /\ pc' = [pc EXCEPT ![th] = "idle"]
    /\ db' = db
    /\ UNCHANGED DbFrame

Database ==
    \/ \E th \in DbCallers, kw \in UpdateCalls : DbUpdate(th, kw)
    \/ \E th \in DbCallers, v \in BOOLEAN : DbSet(th, v)
    \/ \E th \in DbCallers : DbGet(th, "manual_override_active")
    \/ \E th \in DbCallers : DbState(th)
    \/ \E th \in DbCallers : DbWrite(th)
    \/ \E th \in DbCallers : DbReturn(th)

NextDatabase == Database

SpecDatabase == Init /\ [][NextDatabase]_vars

AutomatedMode ==
    \/ \E saved \in BOOLEAN : enable_automated_mode(saved)
    \/ \E saved \in BOOLEAN : disable_automated_mode(saved)

\* one handler at a time, automated mode switched on and off
NextAuto ==
    \/ Primitives
    \/ on_message(WellFormed(Moistures))
    \/ Cron
    \/ Api
    \/ AutomatedMode
    \/ TimerThreads

SpecAuto == InitSeq /\ [][NextAuto]_vars

\* telemetry arrives on the socket while the other contexts run
InitQueue ==
    /\ InitCommon
    /\ clock = 0
    /\ serial = "queue"

QueuePayloads == WellFormed({90})

NextQueue ==
    \/ \E p \in QueuePayloads : Arrive(p)
    \/ Primitives
    \/ on_message(QueuePayloads)
    \/ Cron
    \/ toggle_manual_override_safety
    \/ TimerThreads

SpecQueue == InitQueue /\ [][NextQueue]_vars

(***************************************************************************)
(* Schedule endpoints (lines 1228-1365).  The rows live in the external    *)
(* store; the row handed to the compiler is whatever the store returns.    *)
(* The compiler has no await, so a call is one step of the event loop.     *)
(***************************************************************************)
StartTimes == {<<6, 0, 0>>, <<6, 50, 0>>, <<23, 50, 0>>, <<25, 0, 0>>, <<NotNumber>>}
Durations == {ScheduleDuration, 0}
RepeatDays == {MonWedFri, LiteralDate, EmptyDays}
ScheduleRecords == [id : ScheduleIds, duration_min : Durations, start_time_of_day : StartTimes, repeat_days : RepeatDays, is_active : {0, 1}]

OtherVars == <<db, auto_off_timer, timer, pc, ret, cur, m, running, clock, serial, actuator, callHist, sampleLog, alertHist, sa, probe, lock, oracle, settings, inbox, opCount>>

\* oracle.delete_schedule_from_db, lines 452-460
delete_schedule_from_db(store, schedule_id) == [store EXCEPT !.live = @ \ {schedule_id}]

\* oracle.update_schedule_status, lines 463-473: the row, if there is one
update_schedule_status(store, schedule_id, is_active) ==
    IF schedule_id \in store.live
    THEN [store EXCEPT !.rows[schedule_id].is_active = is_active]
    ELSE store

\* oracle.log_schedule_to_db, lines 393-408: a new row, active, under the
\* next id of the store
log_schedule_to_db(store, start_time, duration_min, repeat_days) ==
    [rows |-> [store.rows EXCEPT ![store.issued + 1] =
                  [id |-> store.issued + 1, duration_min |-> duration_min,
                   start_time_of_day |-> start_time, repeat_days |-> repeat_days,
                   is_active |-> 1]],
     live |-> store.live \cup {store.issued + 1},
     issued |-> store.issued + 1]

\* oracle.update_schedule, lines 476-492: is_active is not part of the payload
update_schedule_in_db(store, schedule_id, start_time_of_day, duration_min, repeat_days) ==
    IF schedule_id \in store.live
    THEN [store EXCEPT !.rows[schedule_id].start_time_of_day = start_time_of_day,
                       !.rows[schedule_id].duration_min = duration_min,
                       !.rows[schedule_id].repeat_days = repeat_days]
    ELSE store

\* get_active_schedules_from_db, lines 440-449
active_schedules(store) == {id \in store.live : store.rows[id].is_active = 1}

\* line 1269: max(active_schedules, key=lambda s: s['id'])
latest_schedule(store) == CHOOSE id \in active_schedules(store) : \A o \in active_schedules(store) : o <= id

\* the compiler applied to a row as one of the endpoints left the store
CompileRow(store, schedule_id) ==
    scheduler' = [jobs |-> add_or_update_job_in_scheduler(scheduler.jobs, store.rows[schedule_id]),
                  last |-> [op |-> "compile", rec |-> store.rows[schedule_id],
                            before |-> scheduler.jobs[schedule_id],
                            failed |-> add_or_update_job_failed(scheduler.jobs, store.rows[schedule_id])],
                  store |-> store]

\* the endpoint ends without touching the job store: the store refused
\* (502 / 404), or it has no row to hand to the compiler
NoCompileRow(store, op, schedule_id) ==
    scheduler' = [jobs |-> scheduler.jobs,
                  last |-> [op |-> op, rec |-> [StartupRecord EXCEPT !.id = schedule_id],
                            before |-> scheduler.jobs[schedule_id], failed |-> FALSE],
                  store |-> store]

\* run_time.strftime("%H:%M:%S") of a create request (line 400)
RunTimes == {<<23, 50, 0>>}
\* repeat_days of a create request, or the literal date (line 1246)
CreateDays == {MonWedFri, LiteralDate}
\* start_time_of_day of an update request is any string (line 980)
UpdateTimes == {<<6, 50, 0>>, <<25, 0, 0>>}

\* create_schedule, lines 1228-1278
create_schedule(run_time, repeat_days, ok) ==
    /\ running.api
    /\ scheduler.store.issued + 1 \in ScheduleIds
    /\ IF ok
       THEN LET store == log_schedule_to_db(scheduler.store, run_time, ScheduleDuration, repeat_days)
            IN  CompileRow(store, latest_schedule(store))
       ELSE NoCompileRow(scheduler.store, "not_saved", scheduler.store.issued + 1)
    /\ UNCHANGED OtherVars

\* update_schedule, lines 1281-1308
update_schedule(schedule_id, start_time_of_day, repeat_days, ok) ==
    /\ running.api
    /\ IF ok /\ schedule_id \in scheduler.store.live
       THEN CompileRow(update_schedule_in_db(scheduler.store, schedule_id, start_time_of_day,
                                             ScheduleDuration, repeat_days), schedule_id)
       ELSE NoCompileRow(scheduler.store, "not_found", schedule_id)
    /\ UNCHANGED OtherVars

\* resume_schedule, lines 1347-1365
resume_schedule(schedule_id, ok) ==
    /\ running.api
    /\ IF ok /\ schedule_id \in scheduler.store.live
       THEN CompileRow(update_schedule_status(scheduler.store, schedule_id, 1), schedule_id)
       ELSE NoCompileRow(scheduler.store, "not_found", schedule_id)
    /\ UNCHANGED OtherVars

\* the compiler on any row: create_schedule 1268-1272, update_schedule
\* 1304-1305, resume_schedule 1362-1363, startup 895-896
AddOrUpdateJob(schedule_data) ==
    /\ running.api
    /\ scheduler' = [jobs |-> add_or_update_job_in_scheduler(scheduler.jobs, schedule_data),
                     last |-> [op |-> "compile", rec |-> schedule_data,
                               before |-> scheduler.jobs[schedule_data.id],
                               failed |-> add_or_update_job_failed(scheduler.jobs, schedule_data)],
                     store |-> scheduler.store]
    /\ UNCHANGED OtherVars

\* the store answers 200/201 (ok) or not; lines 1320-1325 and 1339-1344
RemoveJob(op, schedule_id, ok) ==
    /\ running.api
    /\ scheduler' = [jobs |-> IF ok /\ ~remove_job_raises(scheduler.jobs, schedule_id)
                               THEN remove_job_from_scheduler(scheduler.jobs, schedule_id)
                               ELSE scheduler.jobs,
                     last |-> [op |-> IF ok THEN op ELSE "not_found",
                               rec |-> [StartupRecord EXCEPT !.id = schedule_id],
                               before |-> scheduler.jobs[schedule_id],
                               failed |-> ok /\ remove_job_raises(scheduler.jobs, schedule_id)],
                     store |-> IF ~ok THEN scheduler.store
                               ELSE IF op = "delete"
                               THEN delete_schedule_from_db(scheduler.store, schedule_id)
                               ELSE update_schedule_status(scheduler.store, schedule_id, 0)]
    /\ UNCHANGED OtherVars

delete_schedule(schedule_id) == \E ok \in BOOLEAN : RemoveJob("delete", schedule_id, ok)

pause_schedule(schedule_id) == \E ok \in BOOLEAN : RemoveJob("pause", schedule_id, ok)

Schedules ==
    \/ \E r \in ScheduleRecords : AddOrUpdateJob(r)
    \/ \E id \in ScheduleIds : delete_schedule(id)
    \/ \E id \in ScheduleIds : pause_schedule(id)

NextSchedule == Schedules

\* the schedule endpoints, one request at a time
Lifecycle ==
    \/ \E t \in RunTimes, d \in CreateDays, ok \in BOOLEAN : create_schedule(t, d, ok)
    \/ \E id \in ScheduleIds, t \in UpdateTimes, d \in RepeatDays, ok \in BOOLEAN : update_schedule(id, t, d, ok)
    \/ \E id \in ScheduleIds, ok \in BOOLEAN : resume_schedule(id, ok)
    \/ \E id \in ScheduleIds : delete_schedule(id)
    \/ \E id \in ScheduleIds : pause_schedule(id)

NextLifecycle == Lifecycle

SpecSchedule == InitSeq /\ [][NextSchedule]_vars

SpecLifecycle == InitSeq /\ [][NextLifecycle]_vars

(***************************************************************************)
(* Settings: startup load (lines 858-884) and the thresholds endpoint      *)
(* (lines 1384-1422).  Each await is a point where the handler yields.     *)
(***************************************************************************)
InitSettings ==
    /\ db = InitDb
    /\ InitThreads
    /\ scheduler = [jobs |-> NoJobs, last |-> NoCompile, store |-> StartupStore]
    /\ oracle \in StoredRows
    /\ settings = [NoRequest EXCEPT !.pc = "startup"]
    /\ inbox = NoInbox
    /\ clock = 0
    /\ serial = "calls"

SettingsFrame == <<auto_off_timer, timer, pc, ret, cur, m, running, clock, serial, actuator, callHist, sampleLog, alertHist, sa, probe, lock, scheduler, inbox, opCount>>

\* lines 858-884; fetched is FALSE when get_settings returns None although
\* a row is stored (lines 341-344), saved is the answer of save_settings
LoadSettings(fetched, saved) ==
    /\ settings.pc = "startup"
    /\ settings' = [settings EXCEPT !.pc = "idle"]
    /\ IF oracle.present /\ fetched
       THEN /\ db' = [db EXCEPT
                  !.critical_low_threshold = oracle.critical_low_threshold,
                  !.critical_high_threshold = oracle.critical_high_threshold,
                  !.automated_mode_enabled = oracle.automated_mode_enabled,
                  !.allow_manual_override_at_any_moisture = oracle.allow_manual_override_at_any_moisture]
            /\ oracle' = oracle
       ELSE /\ db' = db
            /\ oracle' = IF saved
                         THEN SettingsRow(db.critical_low_threshold, db.critical_high_threshold, db.automated_mode_enabled, db.allow_manual_override_at_any_moisture)
                         ELSE oracle
    /\ UNCHANGED SettingsFrame

\* lines 1387-1398: the order check, then db.update
ThresholdsStart(critical_low, critical_high) ==
    /\ settings.pc = "idle"
    /\ running.api
    /\ IF ~threshold_order_ok(critical_low, critical_high)
       THEN /\ settings' = [NoRequest EXCEPT !.critical_low_threshold = critical_low,
                                             !.critical_high_threshold = critical_high,
                                             !.status = "400",
                                             !.low0 = db.critical_low_threshold,
                                             !.high0 = db.critical_high_threshold]
            /\ db' = db
       ELSE /\ settings' = [NoRequest EXCEPT !.critical_low_threshold = critical_low,
                                             !.critical_high_threshold = critical_high,
                                             !.status = "pending",
                                             !.pc = "save",
                                             !.low0 = db.critical_low_threshold,
                                             !.high0 = db.critical_high_threshold]
            /\ db' = [db EXCEPT !.critical_low_threshold = critical_low,
                                !.critical_high_threshold = critical_high]
    /\ oracle' = oracle
    /\ UNCHANGED SettingsFrame

\* lines 1400-1409: await oracle.save_settings, 502 when it fails
ThresholdsSave(success) ==
    /\ settings.pc = "save"
    /\ IF success
       THEN /\ oracle' = SettingsRow(settings.critical_low_threshold, settings.critical_high_threshold, db.automated_mode_enabled, db.allow_manual_override_at_any_moisture)
            /\ settings' = [settings EXCEPT !.pc = "broadcast", !.persisted = TRUE]
       ELSE /\ oracle' = oracle
            /\ settings' = [settings EXCEPT !.pc = "idle", !.status = "502"]
    /\ db' = db
    /\ UNCHANGED SettingsFrame

\* lines 1411-1422: await broadcast_current_state, audit log, answer
ThresholdsBroadcast ==
    /\ settings.pc = "broadcast"
    /\ settings' = [settings EXCEPT !.pc = "idle", !.broadcast = TRUE, !.status = "success"]
    /\ UNCHANGED <<db, oracle>>
    /\ UNCHANGED SettingsFrame

set_automated_thresholds ==
    \/ \E l \in ThresholdValues, h \in ThresholdValues : ThresholdsStart(l, h)
    \/ \E success \in BOOLEAN : ThresholdsSave(success)
    \/ ThresholdsBroadcast

Startup == \E fetched \in BOOLEAN, saved \in BOOLEAN : LoadSettings(fetched, saved)

NextSettings == Startup \/ set_automated_thresholds

SpecSettings == InitSettings /\ [][NextSettings]_vars

(***************************************************************************)
(* Properties                                                              *)
(***************************************************************************)
Concat(a, b) == a \o b

\* C1 (SpecSeq): two calls of turn_pump_on in a row, the first made with the
\* pump off and nothing else writing the pump state in between, produce
\* together exactly one ON publish and one audit record; two calls of
\* turn_pump_off in a row, the first made with the pump on, produce together
\* exactly one OFF publish and one audit record.
C1_Idempotent ==
    (Len(callHist) = 2 /\ ~callHist[1].disturbed) =>
        LET a == callHist[1]
            b == callHist[2]
        IN  /\ (a.fn = "on" /\ b.fn = "on" /\ ~a.on0) =>
                  /\ Concat(a.pubs, b.pubs) = <<"ON">>
                  /\ a.auds + b.auds = 1
            /\ (a.fn = "off" /\ b.fn = "off" /\ a.on0) =>
                  /\ Concat(a.pubs, b.pubs) = <<"OFF">>
                  /\ a.auds + b.auds = 1

C1_Witness ==
    /\ Len(callHist) = 2
    /\ ~callHist[1].disturbed
    /\ callHist[1].fn = "on" /\ ~callHist[1].on0
    /\ callHist[2].fn = "on" /\ callHist[2].on0
    /\ callHist[2].pubs = <<>>

\* C2 (Spec): of two contexts that are inside the same primitive at the
\* same time, both having read the same pump state, not both publish.
C2_ExactlyOnePublishes ==
    \A a, b \in Threads :
        (a # b /\ cur[a].fn # "none" /\ cur[a].fn = cur[b].fn
            /\ cur[a].fresh /\ cur[b].fresh) =>
        ~(cur[a].pubs # <<>> /\ cur[b].pubs # <<>>)

\* C3 (Spec): at most one auto-off timer is live (started, not cancelled,
\* not yet fired) in every reachable state.
C3_AtMostOneLiveTimer == Cardinality({t \in Timers : Live(t)}) <= 1

\* arming found the previous timer outstanding and cancelled it
C3_Witness ==
    \E t, u \in Timers :
        /\ pc[MQTT] = "msg_alerts"
        /\ timer[t] = "cancelled"
        /\ timer[u] = "waiting"
        /\ auto_off_timer = u

\* C4 (SpecSeq): when the callback of the timer armed by a turn_pump_on is
\* the next pump command after that turn_pump_on, it publishes OFF exactly
\* once, also when telemetry samples were processed in between.
C4_AutoOffForcesOff ==
    (/\ Len(callHist) = 2
     /\ callHist[1].fn = "on"
     /\ callHist[1].armed # 0
     /\ callHist[2].th = TimerThread(callHist[1].armed)) =>
        callHist[2].pubs = <<"OFF">>

\* a timer that was cancelled, or replaced as the outstanding timer,
\* before its interval elapsed
Superseded(t) ==
    \/ timer[t] = "cancelled"
    \/ timer[t] = "waiting" /\ auto_off_timer # t

\* C5 (SpecTimer): a timer that was cancelled or superseded before its
\* deadline never runs its callback: its thread never enters turn_pump_off,
\* so it neither publishes OFF nor cancels the newer timer.
C5_SupersededTimerIsInert ==
    [][\A t \in Timers :
          Superseded(t) =>
             /\ timer'[t] \notin {"firing", "firing_c"}
             /\ pc'[TimerThread(t)] = "idle"]_vars

\* on, off (the first timer is cancelled), on again (the second is armed)
C5_Witness ==
    \E t, u \in Timers :
        /\ opCount = 3
        /\ actuator = "ON"
        /\ pc[API] = "idle"
        /\ timer[t] = "cancelled"
        /\ timer[u] = "waiting"
        /\ auto_off_timer = u

\* the sample on_message processed last, nothing having run since
LastSample == pc[MQTT] = "idle" /\ sampleLog # <<>>

\* C6 (SpecSeq): with a manual override ON, automated mode enabled and the
\* interlock disabled, a sample above critical_high that reports the pump ON
\* publishes OFF and nothing else, leaves pump_is_on false and clears the
\* manual override.
C6_EmergencyWinsOverManual ==
    (/\ LastSample
     /\ m.manual_override_active /\ m.manual_override_state = "ON"
     /\ db.automated_mode_enabled
     /\ ~m.allow_override_at_any_moisture
     /\ m.moisture > m.critical_high
     /\ m.new_pump_status) =>
        /\ m.pubs = <<"OFF">>
        /\ m.branch = "emergency"
        /\ ~db.pump_is_on
        /\ ~db.manual_override_active
        /\ db.manual_override_state = None

C6_Witness ==
    /\ LastSample
    /\ m.manual_override_active /\ m.manual_override_state = "ON"
    /\ db.automated_mode_enabled
    /\ ~m.allow_override_at_any_moisture
    /\ m.moisture > m.critical_high
    /\ m.new_pump_status
    /\ m.pubs = <<"OFF">>

\* C7 (SpecSeq): with a manual override ON, automated mode enabled and the
\* interlock enabled, a sample above critical_high publishes no OFF and
\* leaves the pump ON; if it reports the pump OFF, ON is published.
C7_ManualWinsOverAutomated ==
    (/\ LastSample
     /\ m.manual_override_active /\ m.manual_override_state = "ON"
     /\ db.automated_mode_enabled
     /\ m.allow_override_at_any_moisture
     /\ m.moisture > m.critical_high) =>
        /\ \A i \in 1..Len(m.pubs) : m.pubs[i] # "OFF"
        /\ db.pump_is_on
        /\ ~m.new_pump_status => m.pubs = <<"ON">>

C7_Witness ==
    /\ LastSample
    /\ m.manual_override_active /\ m.manual_override_state = "ON"
    /\ db.automated_mode_enabled
    /\ m.allow_override_at_any_moisture
    /\ m.moisture > m.critical_high
    /\ ~m.new_pump_status
    /\ m.pubs = <<"ON">>

\* the hysteresis scenario: automated mode, no manual override, thresholds
\* 40 and 80, pump off, then the samples 30, 41, 50, each reporting the
\* status the backend commanded last
HysteresisRun ==
    /\ LastSample
    /\ Len(sampleLog) = 3
    /\ db.automated_mode_enabled /\ ~db.manual_override_active
    /\ db.critical_low_threshold = 40 /\ db.critical_high_threshold = 80
    /\ sampleLog[1].moisture = 30
    /\ sampleLog[2].moisture = 41
    /\ sampleLog[3].moisture = 50
    /\ ~sampleLog[1].before /\ ~sampleLog[1].reported
    /\ sampleLog[2].reported = sampleLog[1].after
    /\ sampleLog[3].reported = sampleLog[2].after

PumpStates == [i \in 1..Len(sampleLog) |-> sampleLog[i].after]

\* C8 as stated (SpecSeq): the samples 30, 41, 50 yield the pump states
\* ON, ON, OFF.
C8_Original == HysteresisRun => PumpStates = <<TRUE, TRUE, FALSE>>

\* C8 amended (SpecSeq): the samples 30, 41, 50 yield the pump states
\* ON, OFF, OFF: the pump is turned off at the first sample inside [40, 80].
C8_Hysteresis == HysteresisRun => PumpStates = <<TRUE, FALSE, FALSE>>

C8_Witness == HysteresisRun /\ PumpStates = <<TRUE, FALSE, FALSE>>

KindCooldown(k) ==
    IF k = "NORMAL_MOISTURE" THEN ALERT_COOLDOWN_INFO
    ELSE ALERT_COOLDOWN_CRITICAL

\* C9 as stated (SpecAlert): two emissions of the same zone alert kind are
\* never less than the kind's cooldown apart, whatever arrives in between.
C9_Original ==
    \A k \in AlertKinds :
        alertHist[k].gap # Never => alertHist[k].gap >= KindCooldown(k)

\* C9 amended (SpecAlert): two emissions of the same zone alert kind with no
\* sample of another zone processed in between are at least the kind's
\* cooldown apart, counted from the timestamp recorded for the earlier one.
C9_Cooldown ==
    \A k \in AlertKinds :
        (alertHist[k].gap # Never /\ alertHist[k].clean) =>
            alertHist[k].gap >= KindCooldown(k)

C9_Witness ==
    \E k \in AlertKinds :
        /\ alertHist[k].gap # Never
        /\ alertHist[k].clean
        /\ alertHist[k].gap >= KindCooldown(k)

\* C10 (SpecCooldown): should_send_alert returns true when nothing is
\* recorded for the key, false before the recorded time plus the cooldown,
\* true from then on, and leaves the recorded time as it was.
C10_ShouldSendAlert ==
    sa.key # None =>
        /\ sa.last = Never => sa.ret
        /\ (sa.last # Never /\ sa.at < sa.last + sa.cooldown) => ~sa.ret
        /\ (sa.last # Never /\ sa.at >= sa.last + sa.cooldown) => sa.ret
        /\ db[sa.key] = sa.last

C10_Witness ==
    /\ sa.key # None
    /\ sa.last # Never
    /\ sa.at = sa.last + sa.cooldown - 1
    /\ ~sa.ret

\* a sample with a missing or invalid field
Malformed(p) ==
    \/ p.form # "object"
    \/ p.moisture \in {NotNumber, Absent}
    \/ p.pump_status = "absent"

\* C11 (SpecIngress): after on_message returns from a malformed sample, the
\* shared state is exactly what it was when the sample arrived.
C11_MalformedSampleLeavesState ==
    (LastSample /\ Malformed(m.payload)) => db = m.db0

\* C12 (SpecIngress): a sample that raised leaves the ingress context alive,
\* and a well-formed sample processed right after it goes through the whole
\* arbitration: a zone is classified and one of the emergency, manual,
\* automated or idle branches is taken.
C12_NoExceptionEscapes ==
    /\ (LastSample /\ m.branch = "error") => running.mqtt
    /\ (/\ LastSample
        /\ Len(sampleLog) >= 2
        /\ sampleLog[Len(sampleLog) - 1].branch = "error"
        /\ ~Malformed(m.payload)) =>
           m.branch \in {"emergency", "manual", "automated", "idle"}

\* a sample with a non-numeric moisture raised at line 569, the next,
\* well-formed sample was arbitrated
C12_Witness ==
    /\ LastSample
    /\ Len(sampleLog) >= 2
    /\ sampleLog[Len(sampleLog) - 1].branch = "error"
    /\ sampleLog[Len(sampleLog) - 1].moisture = NotNumber
    /\ ~Malformed(m.payload)
    /\ m.branch = "automated"
    /\ running.mqtt

\* lifespan has run its shutdown part to the end
ShutdownDone == ~running.scheduler /\ pc[MAIN] = "idle"

\* C13 (Spec): shutdown stops the scheduler before it releases the MQTT
\* link, and once it has completed the pump is recorded off, no timer is
\* live and no scheduler callback is still running.
C13_ShutdownOrder ==
    /\ ~running.mqtt => ~running.scheduler
    /\ ShutdownDone =>
          /\ ~db.pump_is_on
          /\ \A t \in Timers : ~Live(t)
          /\ pc[CRON] = "idle"

\* C14 (Spec): pump_is_on changes value only in the step of turn_pump_on
\* that follows its publish (line 721) or in the step of turn_pump_off that
\* follows its publish (line 752).
C14_OnlyPrimitivesMovePump ==
    [][db'.pump_is_on # db.pump_is_on =>
          \E th \in Threads :
              \/ pc[th] = "on_set" /\ pc'[th] = "on_arm"
              \/ pc[th] = "off_set" /\ pc'[th] = "off_disarm"]_vars

\* a start_time_of_day that is a time of day
IsTimeOfDay(parts) ==
    /\ Len(parts) = 3
    /\ parts[1] \in 0 .. 23
    /\ parts[2] \in 0 .. 59
    /\ parts[3] \in 0 .. 59

MinuteOfDay(trigger) == trigger.hour * 60 + trigger.minute

Recurring(rec) ==
    /\ rec.is_active = 1
    /\ ~rec.repeat_days.dash
    /\ rec.repeat_days.days # {}
    /\ IsTimeOfDay(rec.start_time_of_day)

LastCompiled == scheduler.last.op = "compile"

\* C15: compiling an active record with day-of-week repeat_days leaves
\* exactly two triggers for its id, ON at the start hour:minute and OFF at
\* start + duration (as a time of day), both on the record's day set;
\* deleting the record leaves no trigger for its id.
C15_RecurringCompilesToPair ==
    LET r == scheduler.last.rec
        j == scheduler.jobs[r.id]
    IN  /\ (LastCompiled /\ Recurring(r)) =>
              /\ j.on.present /\ j.off.present
              /\ j.on.days = r.repeat_days.days
              /\ j.off.days = r.repeat_days.days
              /\ j.on.hour = r.start_time_of_day[1]
              /\ j.on.minute = r.start_time_of_day[2]
              /\ MinuteOfDay(j.off) = (MinuteOfDay(j.on) + r.duration_min) % MinutesPerDay
        /\ scheduler.last.op = "delete" => (~j.on.present /\ ~j.off.present)

\* the record of the example (06:00, 15 minutes, mon,wed,fri) was compiled
\* to ON 06:00 / OFF 06:15 and then deleted
C15_Witness ==
    /\ scheduler.last.op = "delete"
    /\ scheduler.last.before.on = [present |-> TRUE, days |-> {0, 2, 4}, hour |-> 6, minute |-> 0]
    /\ scheduler.last.before.off = [present |-> TRUE, days |-> {0, 2, 4}, hour |-> 6, minute |-> 15]
    /\ ~scheduler.jobs[scheduler.last.rec.id].on.present
    /\ ~scheduler.jobs[scheduler.last.rec.id].off.present

\* trigger='cron' (lines 799-802, 811-814): the minutes of the week,
\* counted from Monday 00:00, at which a trigger fires
cron_fires(trigger) == {d * MinutesPerDay + MinuteOfDay(trigger) : d \in trigger.days}

\* minutes from instant t of the week to the first firing strictly after it
MinutesToNext(t, firings) ==
    LET waits == {((f - t - 1) % MinutesPerWeek) + 1 : f \in firings}
    IN  CHOOSE w \in waits : \A v \in waits : w <= v

\* C16: for every compiled recurring schedule with a positive duration,
\* the first OFF firing after each ON firing comes exactly duration_min
\* minutes later.
C16_OffFollowsOnByDuration ==
    LET r == scheduler.last.rec
        j == scheduler.jobs[r.id]
    IN  (LastCompiled /\ Recurring(r) /\ r.duration_min > 0) =>
           \A t \in cron_fires(j.on) :
              MinutesToNext(t, cron_fires(j.off)) = r.duration_min

OneShot(rec) ==
    /\ rec.repeat_days.dash
    /\ IsTimeOfDay(rec.start_time_of_day)

\* C17: compiling a one-shot record (repeat_days is a literal date)
\* registers no trigger for its id, removes the triggers the id had, logs
\* no failure, and leaves the triggers of every other id as they were.
C17_OneShotRegistersNothing ==
    [][(scheduler'.last.op = "compile" /\ OneShot(scheduler'.last.rec)) =>
          LET id == scheduler'.last.rec.id
          IN  /\ ~scheduler'.jobs[id].on.present
              /\ ~scheduler'.jobs[id].off.present
              /\ ~scheduler'.last.failed
              /\ \A o \in ScheduleIds \ {id} :
                    scheduler'.jobs[o] = scheduler.jobs[o]]_vars

\* a one-shot record was compiled for an id that had both triggers
C17_Witness ==
    /\ LastCompiled
    /\ OneShot(scheduler.last.rec)
    /\ scheduler.last.before.on.present
    /\ scheduler.last.before.off.present
    /\ ~scheduler.jobs[scheduler.last.rec.id].on.present
    /\ ~scheduler.jobs[scheduler.last.rec.id].off.present

Invalid(rec) == ~IsTimeOfDay(rec.start_time_of_day) \/ rec.duration_min <= 0

\* C18: compiling an invalid record (start_time_of_day is not a time of
\* day, or duration_min <= 0) leaves no ON or OFF trigger for its id and
\* leaves the triggers of every other id as they were.
C18_InvalidRegistersNothing ==
    [][(scheduler'.last.op = "compile" /\ Invalid(scheduler'.last.rec)) =>
          LET id == scheduler'.last.rec.id
          IN  /\ ~scheduler'.jobs[id].on.present
              /\ ~scheduler'.jobs[id].off.present
              /\ \A o \in ScheduleIds \ {id} :
                    scheduler'.jobs[o] = scheduler.jobs[o]]_vars

\* a set_automated_thresholds request enters the handler
Received(critical_low, critical_high) ==
    /\ settings.pc = "idle"
    /\ settings'.pc # "startup"
    /\ settings' # settings
    /\ settings'.critical_low_threshold = critical_low
    /\ settings'.critical_high_threshold = critical_high

\* C19: a threshold update with critical_low >= critical_high is rejected
\* before anything is written: the thresholds and every other field of the
\* state are as before, nothing is saved to the store, nothing is broadcast.
C19_BadOrderRejected ==
    [][\A l \in ThresholdValues, h \in ThresholdValues :
          (Received(l, h) /\ l >= h) =>
              /\ settings'.status = "400"
              /\ settings'.pc = "idle"
              /\ ~settings'.persisted
              /\ ~settings'.broadcast
              /\ db' = db
              /\ oracle' = oracle]_vars

\* equal thresholds were rejected after an accepted update had set others
C19_Witness ==
    /\ settings.status = "400"
    /\ settings.critical_low_threshold = settings.critical_high_threshold
    /\ db.critical_low_threshold # DefaultLow
    /\ db.critical_low_threshold < db.critical_high_threshold
    /\ oracle.present
    /\ oracle.critical_low_threshold = db.critical_low_threshold

\* C20: critical_low_threshold is strictly less than
\* critical_high_threshold in every reachable state, across the startup
\* load of the settings and any sequence of threshold updates.
C20_ThresholdsOrdered == db.critical_low_threshold < db.critical_high_threshold

\* on_message is called with a message
Dispatched == inbox'.last # inbox.last

C22_ZonePartition ==
    LET mo == db.last_known_moisture
        lo == db.critical_low_threshold
        hi == db.critical_high_threshold
    IN  (probe.fn = "Zone" /\ lo < hi) =>
           /\ probe.ret \in {"low", "normal", "high"}
           /\ probe.ret = "low" <=> mo < lo
           /\ probe.ret = "normal" <=> (lo <= mo /\ mo <= hi)
           /\ probe.ret = "high" <=> mo > hi

\* a moisture equal to critical_high is classified NORMAL
C22_Witness ==
    /\ probe.fn = "Zone"
    /\ db.critical_low_threshold < db.critical_high_threshold
    /\ db.last_known_moisture = db.critical_high_threshold
    /\ probe.ret = "normal"

\* C23 (SpecProbe): the reported mode is MANUAL iff manual_override_active;
\* otherwise SCHEDULED iff current_schedule_name is set; otherwise AUTOMATED
\* iff automated_mode_enabled; otherwise IDLE.
C23_ModePrecedence ==
    probe.fn = "get_current_mode" =>
       /\ probe.ret = "MANUAL" <=> db.manual_override_active
       /\ probe.ret = "SCHEDULED" <=>
             (~db.manual_override_active /\ db.current_schedule_name # None)
       /\ probe.ret = "AUTOMATED" <=>
             (/\ ~db.manual_override_active
              /\ db.current_schedule_name = None
              /\ db.automated_mode_enabled)
       /\ probe.ret = "IDLE" <=>
             (/\ ~db.manual_override_active
              /\ db.current_schedule_name = None
              /\ ~db.automated_mode_enabled)

\* manual override, a schedule and automated mode at once: MANUAL
C23_Witness ==
    /\ probe.fn = "get_current_mode"
    /\ db.manual_override_active
    /\ db.current_schedule_name # None
    /\ db.automated_mode_enabled
    /\ probe.ret = "MANUAL"

\* the override fields as one update call writes them
WrittenTogether(snapshot) == \E kw \in UpdateCalls : snapshot = kw

\* the dictionary holds the override fields of two different updates
Torn == ~(\E kw \in UpdateCalls : /\ db.manual_override_active = kw.manual_override_active
                                  /\ db.manual_override_state = kw.manual_override_state)

\* C24 (SpecDatabase): get, set, update and the state snapshot exclude each
\* other: at most one call is inside the lock, and a snapshot returns the
\* override fields as one update wrote them, never the fields of two
\* updates mixed.
C24_DatabaseCallsAtomic ==
    /\ Cardinality(lock.held) <= 1
    /\ probe.fn = "state" => WrittenTogether(probe.ret)

\* a snapshot was returned whole, and an update is now half way through
C24_Witness ==
    /\ probe.fn = "state"
    /\ probe.ret.manual_override_state = "ON"
    /\ Torn
    /\ lock.held # {}
    /\ \A th \in lock.held : lock.call[th].op = "update"

\* C25 (Spec): one on_message invocation publishes at most one pump
\* command, whichever of the emergency, manual and automated branches it
\* takes and whatever the other contexts do meanwhile.
C25_AtMostOneCommandPerSample == Len(m.pubs) <= 1

\* the automated branch has published ON and on_message is at line 673
C25_Witness ==
    /\ pc[MQTT] = "msg_alerts"
    /\ m.branch = "automated"
    /\ m.pubs = <<"ON">>

\* a sample processed with the manual override active and a target set
ManualSample ==
    /\ LastSample
    /\ m.branch # "error"
    /\ m.manual_override_active
    /\ m.manual_override_state # None

\* C26 (SpecSeq): a sample processed with the manual override active and a
\* target state set publishes ON when ON is requested and the sample reports
\* OFF, publishes OFF when OFF is requested and the sample reports ON, and
\* the automated branch is not taken, whatever the moisture.
C26_ManualEnforcement ==
    ManualSample =>
       /\ (m.manual_override_state = "ON" /\ ~m.new_pump_status) =>
             (m.pubs = <<"ON">> /\ db.pump_is_on)
       /\ (m.manual_override_state = "OFF" /\ m.new_pump_status) =>
             (m.pubs = <<"OFF">> /\ ~db.pump_is_on)
       /\ m.branch \in {"manual", "emergency"}

\* OFF is requested, the sample reports the pump ON with a moisture below
\* critical_low: OFF is published by the manual branch
C26_Witness ==
    /\ ManualSample
    /\ m.manual_override_state = "OFF"
    /\ m.new_pump_status
    /\ m.moisture < m.critical_low
    /\ db.automated_mode_enabled
    /\ m.branch = "manual"
    /\ m.pubs = <<"OFF">>

\* a sample processed with no manual override
UnforcedSample ==
    /\ LastSample
    /\ m.branch # "error"
    /\ ~m.manual_override_active

Published(cmd) == \E i \in 1 .. Len(m.pubs) : m.pubs[i] = cmd

\* C27 (SpecAuto): in a sample processed with no manual override, ON is
\* published only if automated mode is enabled, moisture < critical_low and
\* the pump is off; the automated branch publishes OFF only if automated
\* mode is enabled, moisture >= critical_low and the pump is on; with
\* automated mode disabled the manual and automated branches publish
\* nothing.
C27_AutomatedDecisionTable ==
    UnforcedSample =>
       /\ Published("ON") =>
             /\ db.automated_mode_enabled
             /\ m.moisture < m.critical_low
             /\ ~m.new_pump_status
       /\ (m.branch = "automated" /\ Published("OFF")) =>
             /\ db.automated_mode_enabled
             /\ m.moisture >= m.critical_low
             /\ m.new_pump_status
       /\ ~db.automated_mode_enabled =>
             /\ m.branch \in {"idle", "emergency"}
             /\ m.branch = "idle" => m.pubs = <<>>

\* automated mode was disabled; a sample below critical_low with the pump
\* off publishes nothing
C27_Witness ==
    /\ UnforcedSample
    /\ ~db.automated_mode_enabled
    /\ m.moisture < m.critical_low
    /\ ~m.new_pump_status
    /\ m.branch = "idle"
    /\ m.pubs = <<>>

\* the PUMP_ON / PUMP_OFF alert that matches a change of the pump status
FlipAlert(before, after) ==
    IF before = after THEN None
    ELSE IF after THEN "PUMP_ON" ELSE "PUMP_OFF"

\* C28 (SpecSeq): when the pump status at the end of processing a sample
\* differs from the status recorded at its start, the PUMP_ON or PUMP_OFF
\* alert of the new status is emitted for the sample; when it does not
\* differ, no such alert is emitted.
C28_TransitionAlert ==
    (LastSample /\ m.branch # "error") =>
        m.transition = FlipAlert(m.old_pump_status, db.pump_is_on)

\* the sample turned the pump off while a schedule name was recorded
TurnedOffUnderSchedule ==
    /\ LastSample
    /\ m.branch # "error"
    /\ m.old_pump_status
    /\ ~db.pump_is_on
    /\ m.db0.current_schedule_name # None

\* C29 (SpecSeq): if the pump turns off while a sample is processed (by the
\* emergency, manual or automated branch, or because the sample reports it
\* off) and a schedule name is recorded, then current_schedule_name and
\* schedule_end_time are both None when on_message returns.
C29_ScheduleClearedOnOff ==
    TurnedOffUnderSchedule =>
       /\ db.current_schedule_name = None
       /\ db.schedule_end_time = Never

SampleZone == Zone(m.moisture, m.critical_low, m.critical_high)

\* C30 (SpecSeq): after a sample is processed, the alert trackers of the
\* two zones the sample is not in are None and only the tracker of its own
\* zone is set; the first sample after a change of zone emits the alert of
\* the new zone.
C30_OnlyActiveZoneTrackerSet ==
    (LastSample /\ m.branch # "error") =>
       /\ db[ZoneKey(SampleZone)] # Never
       /\ \A z \in {"low", "normal", "high"} \ {SampleZone} :
             db[ZoneKey(z)] = Never
       /\ (/\ Len(sampleLog) >= 2
           /\ Zone(sampleLog[Len(sampleLog) - 1].moisture, m.critical_low, m.critical_high) # SampleZone) =>
              m.zone_alert = ZoneKind(SampleZone)

\* a NORMAL sample after a CRITICAL_LOW one: the low tracker is cleared and
\* the NORMAL alert is emitted
C30_Witness ==
    /\ LastSample
    /\ Len(sampleLog) >= 2
    /\ sampleLog[Len(sampleLog) - 1].moisture < m.critical_low
    /\ SampleZone = "normal"
    /\ m.zone_alert = "NORMAL_MOISTURE"
    /\ db.last_critical_low_alert = Never
    /\ db.last_normal_alert # Never

Removal == scheduler.last.op \in {"delete", "pause"}

NoTriggers(jobs, id) == ~jobs[id].on.present /\ ~jobs[id].off.present

\* C31: compiling the record that was compiled just before leaves the
\* trigger set as the first compile left it; removing the triggers of an
\* id that has none, or that was removed just before, leaves the trigger
\* set unchanged and raises no error.
C31_CompileDecompileIdempotent ==
    [][/\ (/\ LastCompiled
           /\ scheduler'.last.op = "compile"
           /\ scheduler'.last.rec = scheduler.last.rec) =>
              scheduler'.jobs = scheduler.jobs
       /\ (/\ scheduler'.last.op \in {"delete", "pause"}
           /\ \/ NoTriggers(scheduler.jobs, scheduler'.last.rec.id)
              \/ Removal /\ scheduler.last.rec.id = scheduler'.last.rec.id) =>
              /\ scheduler'.jobs = scheduler.jobs
              /\ ~scheduler'.last.failed]_vars

\* a removal for an id that had no trigger has run
C31_Witness ==
    /\ Removal
    /\ NoTriggers(scheduler.jobs, scheduler.last.rec.id)
    /\ ~scheduler.last.before.on.present
    /\ ~scheduler.last.before.off.present
    /\ ~scheduler.last.failed

\* the triggers a row stands for are registered for its id
TriggersOf(rec, j) ==
    /\ j.on.present /\ j.off.present
    /\ j.on.days = rec.repeat_days.days
    /\ j.off.days = rec.repeat_days.days
    /\ j.on.hour = rec.start_time_of_day[1]
    /\ j.on.minute = rec.start_time_of_day[2]
    /\ MinuteOfDay(j.off) = (MinuteOfDay(j.on) + rec.duration_min) % MinutesPerDay

\* C32 (SpecLifecycle): after any sequence of create, update, pause,
\* resume and delete requests, an id whose row exists, is active and is
\* recurring has its ON and OFF triggers at the times of the row; every
\* other id has no trigger; a trigger that is registered is never one of a
\* superseded version of the row.
C32_TriggersMirrorRecords ==
    \A id \in ScheduleIds :
       LET rec == scheduler.store.rows[id]
           j == scheduler.jobs[id]
           mirrored == id \in scheduler.store.live /\ Recurring(rec)
       IN  /\ mirrored => TriggersOf(rec, j)
           /\ (j.on.present \/ j.off.present) => (mirrored /\ TriggersOf(rec, j))

\* a sample above critical_high was processed with the interlock disabled
WetSample ==
    /\ LastSample
    /\ m.branch # "error"
    /\ m.moisture > m.critical_high
    /\ ~m.allow_override_at_any_moisture

\* C33 (SpecSeq): a sample above critical_high that is processed with
\* allow_manual_override_at_any_moisture false publishes no ON, neither from
\* the manual branch nor from the automated branch, also when it reports
\* the pump off.
C33_NoOnWhenTooWet ==
    WetSample => ~Published("ON")

\* no handler, callback or primitive is in progress in any context
Quiescent == \A th \in Threads : pc[th] = "idle"

\* C34 (SpecSeq): in every quiescent state in which pump_is_on is true an
\* auto-off timer is live, whatever samples, schedule triggers, timer
\* expiries and API calls came before.
C34_PumpOnHasLiveTimer ==
    (Quiescent /\ db.pump_is_on) => \E t \in Timers : Live(t)

\* C35 (Spec): in every quiescent state in which pump_is_on is false no
\* auto-off timer is live, in every interleaving of the contexts.
C35_PumpOffHasNoLiveTimer ==
    (Quiescent /\ ~db.pump_is_on) => \A t \in Timers : ~Live(t)

\* C36 (SpecSeq): while a manual override is active, the pump primitive
\* called by a schedule trigger publishes no command against the requested
\* state: no ON from start_scheduled_pump when OFF is requested, no OFF from
\* stop_scheduled_pump when ON is requested.
C36_ScheduleRespectsManual ==
    db.manual_override_active =>
       /\ (db.manual_override_state = "OFF" /\ cur[CRON].fn = "on") => cur[CRON].pubs = <<>>
       /\ (db.manual_override_state = "ON" /\ cur[CRON].fn = "off") => cur[CRON].pubs = <<>>

\* one telemetry sample and one pump endpoint have run, in any
\* interleaving, and nothing else: the sample left its moisture, the
\* endpoint left the override
SampleAndOverride ==
    /\ Quiescent
    /\ opCount = 2
    /\ db.last_known_moisture \in OverrideSamples
    /\ db.manual_override_active

\* C37 (SpecOverride): when post_pump_on or post_pump_off runs while a
\* telemetry sample is processed in the network thread, then in every
\* interleaving, after both have finished, pump_is_on is the state the
\* operator requested.
C37_OverrideWinsOverSample ==
    SampleAndOverride => (db.pump_is_on <=> db.manual_override_state = "ON")

\* the last set_automated_thresholds call answered 400 or 502
ReportedFailed == settings.status \in {"400", "502"}

\* C38 (SpecSettings): after a threshold update that was answered 400 or
\* 502, critical_low_threshold and critical_high_threshold hold the values
\* they had when the request came in.
C38_FailedUpdateKeepsThresholds ==
    ReportedFailed =>
       /\ db.critical_low_threshold = settings.low0
       /\ db.critical_high_threshold = settings.high0

\* C39 (SpecAuto): in every reachable state manual_override_active is
\* true iff manual_override_state is ON or OFF; post_pump_on, post_pump_off,
\* clear_manual_override, enable_automated_mode and the emergency interlock
\* each write the two fields in one update.
C39_OverrideFieldsAgree ==
    db.manual_override_active <=> db.manual_override_state \in {"ON", "OFF"}

\* the emergency interlock has cleared an override that was active when the
\* sample was read
C39_Witness ==
    /\ LastSample
    /\ m.branch = "emergency"
    /\ m.manual_override_active
    /\ m.manual_override_state = "ON"
    /\ ~db.manual_override_active
    /\ db.manual_override_state = None

====
